---------------------------- MODULE Spec2Model ----------------------------
(***************************************************************************)
(* Model of the authentication core of template-fastapi-rest:              *)
(*   - SecurityMiddleware (src/src/auth/middleware.py): path              *)
(*     classification, the per-client rate limiter, dispatch;             *)
(*   - APIKeyHandler, JWTHandler, HybridHandler, AuthFactory;             *)
(*   - SecurityManager (src/src/utils/security/__init__.py).              *)
(*                                                                         *)
(* Time is the wall clock in whole seconds (time.time / datetime.utcnow),  *)
(* assumed not to run backwards.                                           *)
(***************************************************************************)
EXTENDS Integers, Sequences, FiniteSets, TLC

VARIABLES
    now,          \* the wall clock, in seconds
    config,       \* the security configuration dictionary
    rate_limits,  \* SecurityMiddleware.rate_limits: client id -> bucket
    rl_log,       \* history: per client, the <<time, outcome>> of each check
    last_checked, \* history: the client of the check just made ("" after a tick)
    api_keys,     \* per handler instance: APIKeyHandler._api_keys (key_id -> data)
    key_hashes,   \* per handler instance: APIKeyHandler._key_hashes (hash -> key_id)
    next_key,     \* how many keys secrets.token_urlsafe has generated so far
    ret,          \* history: the last registry call and what it returned
    revoked,      \* history: key ids revoked and not re-activated since
    ever_revoked, \* history: key ids for which revoke_api_key returned true
    reg_ops,      \* history: how many registry calls have been made
    mgr,          \* the SecurityManager: auth_handler, middleware_class, _initialized
    mw,           \* the SecurityMiddleware instance: enabled, auth_handler
    tokens,       \* the JWTs issued so far through the manager
    tasks,        \* per request task: the request and the position in dispatch
    running,      \* the task holding the event loop (0: none)
    serial_rl,    \* history: rate_limits had every check run in one piece
    received,     \* history: how many requests have been received
    threads,      \* per thread calling the registry: the call and its position
    subsec,       \* the wall clock's milliseconds within the second 'now'
    issued_at     \* history: each token issued, with the instant (ms) of its issue

rlVars == <<rate_limits, rl_log, last_checked>>
regVars == <<api_keys, key_hashes, next_key, ret, revoked, ever_revoked, reg_ops>>
dispVars == <<mgr, mw, tokens, tasks, running, serial_rl, received>>
vars == <<now, config, rate_limits, rl_log, last_checked,
          api_keys, key_hashes, next_key, ret, revoked, ever_revoked, reg_ops,
          mgr, mw, tokens, tasks, running, serial_rl, received, threads,
          subsec, issued_at>>

(***************************************************************************)
(* Bounds of the model.                                                    *)
(***************************************************************************)
MaxTime == 75        \* the clock stops advancing here
MaxBurst == 2        \* rate_limit_burst_size ranges over 1..MaxBurst
MaxCalls == 5        \* direct check_rate_limit calls in one behaviour
MaxKeys == 2         \* API keys created in one behaviour
MaxRegTime == 60     \* the clock stops here when the registry is driven directly
MaxRegOps == 4       \* direct registry calls in one behaviour

TimeSteps == {15, 30, 60}   \* the clock advances by one of these
Rates == {1, 2, 4}          \* rate_limit_requests_per_minute
ClientIds == {"10.0.0.1", "10.0.0.2"}

(***************************************************************************)
(* Program constants.                                                      *)
(***************************************************************************)
WindowSeconds == 60      \* "if now - req_time < 60"
SecondsPerMinute == 60   \* "time_passed * requests_per_minute / 60"

Min(a, b) == IF a <= b THEN a ELSE b

(***************************************************************************)
(* SecurityMiddleware.check_rate_limit, statement by statement.            *)
(***************************************************************************)
NewBucket(t) ==
    [requests |-> <<>>,
     burst_tokens |-> config.rate_limit_burst_size,
     last_refill |-> t]

\* lines 126-131: the bucket is created on the client's first check
EnsureBucket(rl, c, t) ==
    IF c \in DOMAIN rl THEN rl ELSE rl @@ (c :> NewBucket(t))

\* line 137: int(time_passed * requests_per_minute / 60), time_passed >= 0
TokensToAdd(dt) ==
    (dt * config.rate_limit_requests_per_minute) \div SecondsPerMinute

RefillUncapped(b, t) ==
    [b EXCEPT !.burst_tokens = @ + TokensToAdd(t - b.last_refill),
              !.last_refill = t]

\* lines 136-142
Refill(b, t) ==
    [b EXCEPT !.burst_tokens =
                 Min(config.rate_limit_burst_size,
                     @ + TokensToAdd(t - b.last_refill)),
              !.last_refill = t]

\* lines 145-148
Prune(b, t) ==
    [b EXCEPT !.requests = SelectSeq(@, LAMBDA x : t - x < WindowSeconds)]

AdmitsOnTokensAlone(b) == ~(b.burst_tokens <= 0)

\* lines 151-155: neither gate denies
Admits(b) ==
    /\ ~(Len(b.requests) >= config.rate_limit_requests_per_minute)
    /\ ~(b.burst_tokens <= 0)

ConsumeKeepTokens(b, t) ==
    [b EXCEPT !.requests = Append(@, t)]

\* lines 158-159
Consume(b, t) ==
    [b EXCEPT !.requests = Append(@, t), !.burst_tokens = @ - 1]

\* a limiter keeping one bucket for all clients
CheckRateLimitOneBucket(rl, c, t) ==
    LET k == CHOOSE x \in ClientIds : TRUE
        rl1 == EnsureBucket(rl, k, t)
        b2 == Prune(Refill(rl1[k], t), t)
    IN IF Admits(b2)
       THEN [ok |-> TRUE, rl |-> [rl1 EXCEPT ![k] = Consume(b2, t)]]
       ELSE [ok |-> FALSE, rl |-> [rl1 EXCEPT ![k] = b2]]

\* The whole call: <<allowed, rate_limits afterwards>>
CheckRateLimit(rl, c, t) ==
    IF ~config.rate_limit_enabled
    THEN [ok |-> TRUE, rl |-> rl]
    ELSE LET rl1 == EnsureBucket(rl, c, t)
             b2 == Prune(Refill(rl1[c], t), t)
         IN IF Admits(b2)
            THEN [ok |-> TRUE, rl |-> [rl1 EXCEPT ![c] = Consume(b2, t)]]
            ELSE [ok |-> FALSE, rl |-> [rl1 EXCEPT ![c] = b2]]

(***************************************************************************)
(* APIKeyHandler (src/src/auth/handlers/api_key_handler.py).               *)
(* An Optional number or time is a sequence of length 0 (None) or 1; an    *)
(* Optional string is the string or None.                                  *)
(***************************************************************************)
None == "None"
Handlers == {"manager", "middleware"}   \* who built the handler instance
UserIds == {"u1"}                       \* create_api_key(user_id)

\* secrets.token_urlsafe: the n-th key and key id generated. 256 random bits:
\* every draw is taken to differ from all earlier ones.
RawKeyOf(n) == <<"raw", n>>
KeyIdOf(n) == <<"id", n>>
RawKeys == {RawKeyOf(n) : n \in 1..MaxKeys}
KeyIds == {KeyIdOf(n) : n \in 1..MaxKeys}
EmptyString == <<"raw", 0>>
NoId == <<"id", 0>>   \* the empty string presented as a key

\* hash_api_key: the SHA-256 hex digest, a different string for each key.
hash_api_key_identity(api_key) == api_key

\* lines 44-54: the hex digest of the key, a value of another kind than the key
hash_api_key(api_key) == <<"sha256", api_key[2]>>

EmptyRegistry == [api_keys |-> <<>>, key_hashes |-> <<>>]

Truthy(opt) == Len(opt) = 1

\* expires_at and expires_at < utcnow()
Expired(data, t) == Truthy(data.expires_at) /\ data.expires_at[1] < t

create_api_key_unindexed(reg, n, name, user_id, permissions, rate_limit, expires_at, t) ==
    LET api_key == RawKeyOf(n)
        key_id == KeyIdOf(n)
        data == [key_id |-> key_id, name |-> name, user_id |-> user_id,
                 permissions |-> permissions, rate_limit |-> rate_limit,
                 expires_at |-> expires_at, is_active |-> TRUE,
                 created_at |-> <<t>>, last_used |-> <<>>]
    IN [reg |-> [api_keys |-> (key_id :> data) @@ reg.api_keys,
                 key_hashes |-> reg.key_hashes],
        value |-> <<api_key, data>>]

\* lines 77-96. reg is [api_keys, key_hashes]; n numbers the generated key.
create_api_key(reg, n, name, user_id, permissions, rate_limit, expires_at, t) ==
    LET api_key == RawKeyOf(n)
        key_id == KeyIdOf(n)
        data == [key_id |-> key_id, name |-> name, user_id |-> user_id,
                 permissions |-> permissions, rate_limit |-> rate_limit,
                 expires_at |-> expires_at, is_active |-> TRUE,
                 created_at |-> <<t>>, last_used |-> <<>>]
    IN [reg |-> [api_keys |-> (key_id :> data) @@ reg.api_keys,
                 key_hashes |-> (hash_api_key(api_key) :> key_id) @@ reg.key_hashes],
        value |-> <<api_key, data>>]

validate_ignoring_is_active(reg, api_key, t) ==
    IF api_key = EmptyString \/ hash_api_key(api_key) \notin DOMAIN reg.key_hashes
    THEN [reg |-> reg, found |-> FALSE]
    ELSE LET key_id == reg.key_hashes[hash_api_key(api_key)]
         IN IF key_id \notin DOMAIN reg.api_keys \/ Expired(reg.api_keys[key_id], t)
            THEN [reg |-> reg, found |-> FALSE]
            ELSE [reg |-> [reg EXCEPT !.api_keys[key_id].last_used = <<t>>],
                  found |-> TRUE, key_id |-> key_id]

validate_ignoring_expiry(reg, api_key, t) ==
    IF api_key = EmptyString \/ hash_api_key(api_key) \notin DOMAIN reg.key_hashes
    THEN [reg |-> reg, found |-> FALSE]
    ELSE LET key_id == reg.key_hashes[hash_api_key(api_key)]
         IN IF key_id \notin DOMAIN reg.api_keys \/ ~reg.api_keys[key_id].is_active
            THEN [reg |-> reg, found |-> FALSE]
            ELSE [reg |-> [reg EXCEPT !.api_keys[key_id].last_used = <<t>>],
                  found |-> TRUE, key_id |-> key_id]

\* lines 108-132. found = FALSE is the None result; otherwise the record
\* returned is reg.api_keys[key_id] of the result.
validate_api_key(reg, api_key, t) ==
    IF api_key = EmptyString
    THEN [reg |-> reg, found |-> FALSE]
    ELSE LET key_hash == hash_api_key(api_key)
         IN IF key_hash \notin DOMAIN reg.key_hashes
            THEN [reg |-> reg, found |-> FALSE]
            ELSE LET key_id == reg.key_hashes[key_hash]
                 IN IF key_id \notin DOMAIN reg.api_keys
                    THEN [reg |-> reg, found |-> FALSE]
                    ELSE IF ~reg.api_keys[key_id].is_active
                    THEN [reg |-> reg, found |-> FALSE]
                    ELSE IF Expired(reg.api_keys[key_id], t)
                    THEN [reg |-> reg, found |-> FALSE]
                    ELSE [reg |-> [reg EXCEPT !.api_keys[key_id].last_used = <<t>>],
                          found |-> TRUE, key_id |-> key_id]

revoke_deleting_record(reg, key_id) ==
    IF key_id \in DOMAIN reg.api_keys
    THEN [reg |-> [reg EXCEPT !.api_keys =
                       [k \in DOMAIN reg.api_keys \ {key_id} |-> reg.api_keys[k]]],
          value |-> TRUE]
    ELSE [reg |-> reg, value |-> FALSE]

\* lines 207-210
revoke_api_key(reg, key_id) ==
    IF key_id \in DOMAIN reg.api_keys
    THEN [reg |-> [reg EXCEPT !.api_keys[key_id].is_active = FALSE], value |-> TRUE]
    ELSE [reg |-> reg, value |-> FALSE]

update_assign_all(reg, key_id, name, permissions, rate_limit, expires_at, is_active) ==
    IF key_id \notin DOMAIN reg.api_keys
    THEN [reg |-> reg, value |-> FALSE]
    ELSE [reg |-> [reg EXCEPT !.api_keys[key_id] =
                      [@ EXCEPT !.name = name,
                                !.permissions = IF Truthy(permissions)
                                                THEN permissions[1] ELSE <<>>,
                                !.rate_limit = rate_limit,
                                !.expires_at = expires_at,
                                !.is_active = Truthy(is_active) /\ is_active[1]]],
          value |-> TRUE]

\* lines 264-280. An argument left out is None (strings) or <<>> wrapped:
\* name: None or a string; the others: <<>> (not given) or <<value>>.
update_api_key(reg, key_id, name, permissions, rate_limit, expires_at, is_active) ==
    IF key_id \notin DOMAIN reg.api_keys
    THEN [reg |-> reg, value |-> FALSE]
    ELSE LET d0 == reg.api_keys[key_id]
             d1 == IF name # None THEN [d0 EXCEPT !.name = name] ELSE d0
             d2 == IF Truthy(permissions)
                   THEN [d1 EXCEPT !.permissions = permissions[1]] ELSE d1
             d3 == IF Truthy(rate_limit)
                   THEN [d2 EXCEPT !.rate_limit = rate_limit] ELSE d2
             d4 == IF Truthy(expires_at)
                   THEN [d3 EXCEPT !.expires_at = expires_at] ELSE d3
             d5 == IF Truthy(is_active)
                   THEN [d4 EXCEPT !.is_active = is_active[1]] ELSE d4
         IN [reg |-> [reg EXCEPT !.api_keys[key_id] = d5], value |-> TRUE]

cleanup_keeping_hashes(reg, t) ==
    LET expired_keys == {k \in DOMAIN reg.api_keys : Expired(reg.api_keys[k], t)}
        keep_ids == DOMAIN reg.api_keys \ expired_keys
    IN [reg |-> [api_keys |-> [k \in keep_ids |-> reg.api_keys[k]],
                 key_hashes |-> reg.key_hashes],
        value |-> Cardinality(expired_keys)]

\* lines 289-304
cleanup_expired_keys(reg, t) ==
    LET expired_keys == {k \in DOMAIN reg.api_keys : Expired(reg.api_keys[k], t)}
        keep_ids == DOMAIN reg.api_keys \ expired_keys
        \* one hash entry is deleted per expired key (the loop breaks)
        dropped == {CHOOSE h \in DOMAIN reg.key_hashes : reg.key_hashes[h] = k :
                       k \in {x \in expired_keys :
                                 \E h \in DOMAIN reg.key_hashes : reg.key_hashes[h] = x}}
        keep_hashes == DOMAIN reg.key_hashes \ dropped
    IN [reg |-> [api_keys |-> [k \in keep_ids |-> reg.api_keys[k]],
                 key_hashes |-> [h \in keep_hashes |-> reg.key_hashes[h]]],
        value |-> Cardinality(expired_keys)]

Registry(h) == [api_keys |-> api_keys[h], key_hashes |-> key_hashes[h]]

SetRegistry(h, reg) ==
    /\ api_keys' = [api_keys EXCEPT ![h] = reg.api_keys]
    /\ key_hashes' = [key_hashes EXCEPT ![h] = reg.key_hashes]

\* The threads that call into one registry (route handlers declared with
\* "def" run on the server's thread pool).
ThreadIds == {1, 2}

IdleThread ==
    [pc |-> "idle", op |-> "none", key_id |-> NoId, api_key |-> EmptyString,
     expired_keys |-> {}, error |-> "none", value |-> "none"]

RegIdle ==
    /\ threads = [th \in ThreadIds |-> IdleThread]
    /\ subsec = 0
    /\ issued_at = {}
    /\ api_keys = [h \in Handlers |-> <<>>]
    /\ key_hashes = [h \in Handlers |-> <<>>]
    /\ next_key = 0
    /\ ret = [op |-> "none"]
    /\ revoked = {}
    /\ ever_revoked = {}
    /\ reg_ops = 0

(***************************************************************************)
(* Path classification (SecurityMiddleware.is_path_excluded and            *)
(* is_path_protected). A path or prefix is a sequence of segments;         *)
(* str.startswith is the prefix test.                                      *)
(***************************************************************************)
startswith(path, prefix) ==
    /\ Len(prefix) <= Len(path)
    /\ SubSeq(path, 1, Len(prefix)) = prefix

is_path_excluded_exact(m, path) ==
    \E i \in 1..Len(m.excluded_paths) : path = m.excluded_paths[i]

\* lines 71-74; m is the middleware instance
is_path_excluded(m, path) ==
    \E i \in 1..Len(m.excluded_paths) : startswith(path, m.excluded_paths[i])

is_path_protected_allow_by_default(m, path) ==
    \E i \in 1..Len(m.protected_paths) : startswith(path, m.protected_paths[i])

\* lines 87-93
is_path_protected(m, path) ==
    IF m.protected_paths = <<>>
    THEN ~is_path_excluded(m, path)
    ELSE \E i \in 1..Len(m.protected_paths) : startswith(path, m.protected_paths[i])

(***************************************************************************)
(* JWTHandler (src/src/auth/handlers/jwt_handler.py). A token is the       *)
(* record of its signing key and payload; NoToken is no token at all.      *)
(***************************************************************************)
NoToken == [kind |-> "none"]
Issuer == "fastapi-rest-template"

SecondsPerDay == 86400

\* no additional claims
NoClaims == [claim \in {} |-> None]

\* lines 58-77; t in seconds. A payload without an "email" claim reads as
\* email None (payload.get). payload.update(additional_claims) lets an
\* additional claim replace a claim of the same name.
create_access_token(cfg, user_id, username, roles, permissions, additional_claims, t) ==
    [kind |-> "jwt", key |-> cfg.jwt_secret_key] @@
    additional_claims @@
    [sub |-> user_id, username |-> username, user_id |-> user_id, email |-> None,
     roles |-> roles, permissions |-> permissions,
     exp |-> t + cfg.jwt_access_token_expire_minutes * SecondsPerMinute,
     iat |-> t, iss |-> Issuer, type |-> "access"]

\* lines 90-103; a payload without "roles" or "permissions" reads as the
\* empty list (payload.get(..., []))
create_refresh_token(cfg, user_id, username, t) ==
    [kind |-> "jwt", key |-> cfg.jwt_secret_key, sub |-> user_id,
     username |-> username, user_id |-> user_id, email |-> None,
     roles |-> <<>>, permissions |-> <<>>,
     exp |-> t + cfg.jwt_refresh_token_expire_days * SecondsPerDay,
     iat |-> t, iss |-> Issuer, type |-> "refresh"]

\* A token signed with a key the service does not know.
ForgedToken ==
    [kind |-> "jwt", key |-> "attacker-key", sub |-> "u1", username |-> "alice",
     user_id |-> "u1", email |-> None, roles |-> <<"admin">>, permissions |-> <<>>,
     exp |-> 1000000, iat |-> 0, iss |-> Issuer, type |-> "access"]

\* lines 141-151: the TokenData built from a decoded payload
TokenData(payload) ==
    [user_id |-> payload.user_id, username |-> payload.username,
     email |-> payload.email, roles |-> payload.roles,
     permissions |-> payload.permissions, exp |-> payload.exp, iat |-> payload.iat,
     iss |-> payload.iss, sub |-> payload.sub]

\* lines 118-162: jwt.decode checks the signature, then exp; then the issuer
\* and the token type are compared. detail "" means the token verified.
verify_token(cfg, token, t) ==
    IF token.key # cfg.jwt_secret_key
    THEN [ok |-> FALSE, detail |-> "Invalid token: Signature verification failed"]
    ELSE IF token.exp <= t
    THEN [ok |-> FALSE, detail |-> "Token has expired"]
    ELSE IF token.iss # Issuer
    THEN [ok |-> FALSE, detail |-> "Invalid token issuer"]
    ELSE IF token.type \notin {"access", "refresh"}
    THEN [ok |-> FALSE, detail |-> "Invalid token type"]
    ELSE [ok |-> TRUE, detail |-> "", data |-> TokenData(token)]

\* lines 244-267: the new access token, or the 401 raised. An empty string
\* and None are both falsy at line 247.
refresh_access_token(cfg, refresh_token, t) ==
    LET v == verify_token(cfg, refresh_token, t)
    IN IF ~v.ok
       THEN [raised |-> TRUE, status |-> 401, detail |-> v.detail, token |-> NoToken]
       ELSE IF v.data.user_id \in {None, ""} \/ v.data.username \in {None, ""}
       THEN [raised |-> TRUE, status |-> 401, detail |-> "Invalid refresh token",
             token |-> NoToken]
       ELSE [raised |-> FALSE, status |-> 200, detail |-> "",
             token |-> create_access_token(cfg, v.data.user_id, v.data.username,
                                           v.data.roles, v.data.permissions,
                                           NoClaims, t)]

UnauthenticatedContext(authorized) ==
    [user_id |-> None, username |-> None, auth_type |-> "none",
     is_authenticated |-> FALSE, is_authorized |-> authorized, source |-> "middleware"]

\* authenticate_request accepting tokens of type access only
jwt_authenticate_access_only(cfg, req, t) ==
    IF req.token = NoToken
    THEN [raised |-> TRUE, detail |-> "Missing or invalid authorization header"]
    ELSE LET v == verify_token(cfg, req.token, t)
         IN IF ~v.ok \/ req.token.type # "access"
            THEN [raised |-> TRUE, detail |-> "Invalid token type"]
            ELSE [raised |-> FALSE, detail |-> "",
                  ctx |-> [user_id |-> v.data.user_id,
                           username |-> v.data.username, auth_type |-> "jwt",
                           is_authenticated |-> TRUE, is_authorized |-> TRUE,
                           source |-> "handler"]]

\* JWTHandler.authenticate_request, lines 199-229
jwt_authenticate_request(cfg, req, t) ==
    IF req.token = NoToken
    THEN [raised |-> TRUE, detail |-> "Missing or invalid authorization header"]
    ELSE LET v == verify_token(cfg, req.token, t)
         IN IF ~v.ok
            THEN [raised |-> TRUE, detail |-> v.detail]
            ELSE [raised |-> FALSE, detail |-> "",
                  ctx |-> [user_id |-> v.data.user_id,
                           username |-> v.data.username, auth_type |-> "jwt",
                           is_authenticated |-> TRUE, is_authorized |-> TRUE,
                           source |-> "handler"]]

\* APIKeyHandler.authenticate_request, lines 169-195. NoKey: neither the
\* header nor the query parameter carries a key. reg is the handler's
\* registry, returned with last_used updated on success.
NoKey == <<"raw", -1>>

extract_api_key_query_first(req) ==
    IF req.api_key_query # NoKey /\ req.api_key_query # EmptyString
    THEN req.api_key_query
    ELSE IF req.api_key_header # NoKey /\ req.api_key_header # EmptyString
    THEN req.api_key_header
    ELSE NoKey

\* lines 145-154: the header first, the query parameter if the header gave nothing
extract_api_key_from_request(req) ==
    IF req.api_key_header # NoKey /\ req.api_key_header # EmptyString
    THEN req.api_key_header
    ELSE IF req.api_key_query # NoKey /\ req.api_key_query # EmptyString
    THEN req.api_key_query
    ELSE NoKey

api_key_authenticate_request(reg, req, t) ==
    IF extract_api_key_from_request(req) = NoKey
    THEN [raised |-> TRUE, detail |-> "Missing API key", reg |-> reg]
    ELSE LET v == validate_api_key(reg, extract_api_key_from_request(req), t)
         IN IF ~v.found
            THEN [raised |-> TRUE, detail |-> "Invalid or expired API key", reg |-> reg]
            ELSE [raised |-> FALSE, detail |-> "", reg |-> v.reg,
                  ctx |-> [user_id |-> v.reg.api_keys[v.key_id].user_id,
                           username |-> v.reg.api_keys[v.key_id].name,
                           auth_type |-> "api_key",
                           is_authenticated |-> TRUE, is_authorized |-> TRUE,
                           source |-> "handler"]]

hybrid_surfacing_last_error(cfg, reg, req, t) ==
    LET j == jwt_authenticate_request(cfg, req, t)
        a == api_key_authenticate_request(reg, req, t)
    IN IF cfg.prefer_jwt
       THEN IF ~j.raised THEN j @@ [reg |-> reg]
            ELSE IF ~a.raised THEN a
            ELSE [raised |-> TRUE, detail |-> a.detail, reg |-> reg]
       ELSE IF ~a.raised THEN a
            ELSE IF ~j.raised THEN j @@ [reg |-> reg]
            ELSE [raised |-> TRUE, detail |-> j.detail, reg |-> reg]

hybrid_without_fallback(cfg, reg, req, t) ==
    IF cfg.prefer_jwt
    THEN jwt_authenticate_request(cfg, req, t) @@ [reg |-> reg]
    ELSE api_key_authenticate_request(reg, req, t)

\* HybridHandler.authenticate_request, lines 44-64
hybrid_authenticate_request(cfg, reg, req, t) ==
    LET j == jwt_authenticate_request(cfg, req, t)
        a == api_key_authenticate_request(reg, req, t)
    IN IF cfg.prefer_jwt
       THEN IF ~j.raised THEN j @@ [reg |-> reg]
            ELSE IF ~a.raised THEN a
            ELSE [raised |-> TRUE, detail |-> j.detail, reg |-> reg]
       ELSE IF ~a.raised THEN a
            ELSE IF ~j.raised THEN j @@ [reg |-> reg]
            ELSE [raised |-> TRUE, detail |-> a.detail, reg |-> reg]

\* handler.authenticate_request for the handler kind built by the factory
authenticate_request(kind, cfg, reg, req, t) ==
    IF kind = "jwt" THEN jwt_authenticate_request(cfg, req, t) @@ [reg |-> reg]
    ELSE IF kind = "api_key" THEN api_key_authenticate_request(reg, req, t)
    ELSE hybrid_authenticate_request(cfg, reg, req, t)

(***************************************************************************)
(* AuthFactory.create_handler, SecurityMiddleware.__init__ and             *)
(* SecurityManager._initialize.                                            *)
(***************************************************************************)
AuthTypes == {"jwt", "api_key", "hybrid", "none"}

\* auth_factory.py lines 29-43 with JWTHandler.__init__ (lines 33-34) and
\* HybridHandler.__init__ (line 26): the handler kind built, or a raise.
create_handler_ignoring_secret(cfg) ==
    IF cfg.auth_type \notin AuthTypes
    THEN [raised |-> TRUE, handler |-> None]
    ELSE IF cfg.auth_type = "none"
    THEN [raised |-> FALSE, handler |-> None]
    ELSE [raised |-> FALSE, handler |-> cfg.auth_type]

create_handler(cfg) ==
    IF cfg.auth_type \notin AuthTypes
    THEN [raised |-> TRUE, handler |-> None]
    ELSE IF cfg.auth_type \in {"jwt", "hybrid"} /\ cfg.jwt_secret_key \in {None, ""}
    THEN [raised |-> TRUE, handler |-> None]
    ELSE IF cfg.auth_type = "none"
    THEN [raised |-> FALSE, handler |-> None]
    ELSE [raised |-> FALSE, handler |-> cfg.auth_type]

\* middleware.py lines 40-59: a failure to build the handler is caught and
\* switches the middleware off.
NewSecurityMiddleware(cfg) ==
    LET h == create_handler(cfg)
    IN [enabled |-> cfg.enabled /\ ~h.raised,
        auth_handler |-> IF cfg.enabled /\ ~h.raised THEN h.handler ELSE None,
        excluded_paths |-> cfg.excluded_paths,
        protected_paths |-> cfg.protected_paths,
        custom_auth_check |-> cfg.custom_auth_check]

\* security/__init__.py lines 63-88
NewSecurityManager(cfg) ==
    LET h == create_handler(cfg)
    IN IF cfg.enabled /\ h.raised
       THEN [auth_handler |-> None, middleware_class |-> FALSE, initialized |-> FALSE]
       ELSE [auth_handler |-> IF cfg.enabled THEN h.handler ELSE None,
             middleware_class |-> TRUE, initialized |-> TRUE]

(***************************************************************************)
(* SecurityMiddleware.dispatch as a coroutine on the event loop: a task    *)
(* runs from one await to the next without interruption.                   *)
(***************************************************************************)
MaxRequests == 2     \* requests received in one behaviour
MaxIssued == 1       \* credentials (API keys, JWTs) the manager issues in one behaviour
MaxDispatchTime == 60
DispatchTimeSteps == {60}
Tasks == {1, 2}      \* requests in flight at once
DispatchClients == {"10.0.0.1"}

RequestPaths ==
    {<<"health">>, <<"api", "v1", "users">>, <<"api", "v1", "public">>, <<"other">>}

\* request.state.security_context is not set, or is falsy
Absent == "absent"

\* state_user_id: Absent, or the user_id (None or a string) of a security
\* context an outer layer has put on request.state. downstream: what the
\* handler behind call_next does with the request, answer or raise.
NoRequest == [path |-> <<>>, client |-> None, api_key_header |-> NoKey,
              api_key_query |-> NoKey, token |-> NoToken,
              state_user_id |-> Absent, downstream |-> "ok"]

IdleTask ==
    [pc |-> "idle", req |-> NoRequest, client_id |-> "", t_now |-> 0,
     allowed |-> "unset", serial_ok |-> "unset",
     ctx |-> UnauthenticatedContext(FALSE), state_ctx |-> FALSE,
     status |-> 0, error |-> "", error_description |-> "", x_auth_type |-> "",
     x_security_context |-> "",
     steps |-> <<>>]

AwaitsAlsoInsideCheck(pc) ==
    pc \in {"idle", "done", "custom_auth_check", "call_next", "rl_update"}

\* The positions at which the coroutine is suspended: before a request and
\* after the response, and at "await custom_auth_check(request)" (line 257)
\* and "await call_next(request)" (lines 232, 239, 243, 295).
Awaits(pc) == pc \in {"idle", "done", "custom_auth_check", "call_next"}

ClassifyProtectedFirst(m, path) ==
    IF is_path_protected(m, path) THEN "protected"
    ELSE IF is_path_excluded(m, path) THEN "excluded"
    ELSE "not_protected"

\* lines 238-243
Classify(m, path) ==
    IF is_path_excluded(m, path) THEN "excluded"
    ELSE IF ~is_path_protected(m, path) THEN "not_protected"
    ELSE "protected"

\* lines 106-108; request.client.host on a request without a client address
\* raises AttributeError
get_client_identifier(req) ==
    IF req.state_user_id # Absent
    THEN IF req.state_user_id # None
         THEN [raised |-> FALSE, value |-> req.state_user_id]
         ELSE IF req.client # None
         THEN [raised |-> FALSE, value |-> req.client]
         ELSE [raised |-> TRUE, value |-> "AttributeError"]
    ELSE [raised |-> FALSE, value |-> IF req.client # None THEN req.client ELSE "unknown"]

\* a strategy failure reported as an authenticated caller lacking permission
create_security_context_forbidding(m, cfg, reg, req, t) ==
    IF ~m.enabled \/ m.auth_handler = None
    THEN [ctx |-> UnauthenticatedContext(TRUE), reg |-> reg]
    ELSE LET a == authenticate_request(m.auth_handler, cfg, reg, req, t)
         IN IF a.raised
            THEN [ctx |-> [UnauthenticatedContext(FALSE) EXCEPT
                              !.is_authenticated = TRUE],
                  reg |-> reg]
            ELSE [ctx |-> a.ctx, reg |-> a.reg]

\* lines 173-194: the context and the middleware handler's registry afterwards
create_security_context(m, cfg, reg, req, t) ==
    IF ~m.enabled \/ m.auth_handler = None
    THEN [ctx |-> UnauthenticatedContext(TRUE), reg |-> reg]
    ELSE LET a == authenticate_request(m.auth_handler, cfg, reg, req, t)
         IN IF a.raised
            THEN [ctx |-> UnauthenticatedContext(FALSE), reg |-> reg]
            ELSE [ctx |-> a.ctx, reg |-> a.reg]

AuthOutcomeTrusting(ctx) == 0

\* lines 276-289: the status dispatch answers with, 0 to go on to call_next
AuthOutcome(ctx) ==
    IF ~ctx.is_authenticated THEN 401
    ELSE IF ~ctx.is_authorized THEN 403
    ELSE 0

AfterRateLimitSkipAuth(m) == "call_next"

\* lines 255-273: what follows an allowed rate-limit check
AfterRateLimit(m) ==
    IF m.custom_auth_check # "none" THEN "custom_auth_check" ELSE "authenticate"

Step(t, task) ==
    /\ tasks' = [tasks EXCEPT ![t] = task]
    /\ running' = IF Awaits(task.pc) THEN 0 ELSE t

Runs(t, pc) ==
    /\ tasks[t].pc = pc
    /\ running \in {0, t}

\* the details string dispatch passes to create_error_response with each
\* error type (lines 248-251, 260-263, 266-269, 278-281, 286-289, 312-313)
ErrorDetails(error) ==
    CASE error = "rate_limit_exceeded" -> "Rate limit exceeded. Please try again later."
      [] error = "authentication_failed" -> "Custom authentication check failed"
      [] error = "authentication_error" -> "Custom authentication error: <exception>"
      [] error = "authentication_required" -> "Authentication required for this endpoint"
      [] error = "authorization_failed" -> "Insufficient permissions for this endpoint"
      [] error = "internal_error" -> "Security middleware error: <exception>"

\* create_error_response, lines 196-217: error_description = details or error
Respond(task, status, error) ==
    [task EXCEPT !.pc = "done", !.status = status, !.error = error,
                 !.error_description = IF ErrorDetails(error) # ""
                                       THEN ErrorDetails(error) ELSE error]

\* an exception leaves dispatch: the coroutine ends without a response
Raise(task, exception) ==
    [task EXCEPT !.pc = "done", !.status = 0, !.error = exception]

ForwardWithContext(task) ==
    [task EXCEPT !.pc = "call_next", !.steps = Append(@, "call_next"), !.state_ctx = TRUE]

Forward(task) ==
    [task EXCEPT !.pc = "call_next", !.steps = Append(@, "call_next")]

\* The requests clients send: any path, with no credential, an API key the
\* manager has issued, or a bearer token (issued or forged); both kinds of
\* credential at once only where the hybrid strategy is configured.
Requests ==
    {r \in [path : RequestPaths, client : DispatchClients,
            api_key_header : {NoKey} \cup {RawKeyOf(n) : n \in 1..next_key},
            api_key_query : {NoKey},
            token : {NoToken, ForgedToken} \cup tokens,
            state_user_id : {Absent}, downstream : {"ok"}] :
        \/ r.api_key_header = NoKey
        \/ r.token = NoToken
        \/ config.auth_type = "hybrid"}

\* A request out of reqs arrives and its dispatch coroutine is started.
ReceiveFrom(t, reqs) ==
    /\ tasks[t].pc \in {"idle", "done"}
    /\ \A u \in Tasks : u < t => tasks[u].pc \notin {"idle", "done"}
    /\ running = 0
    /\ received < MaxRequests
    /\ received' = received + 1
    /\ \E req \in reqs :
          Step(t, [IdleTask EXCEPT !.pc = "dispatch", !.req = req])
    /\ UNCHANGED <<now, config, subsec, issued_at, threads, rlVars, regVars, mgr, mw, tokens, serial_rl>>

Receive(t) == ReceiveFrom(t, Requests)

\* lines 231-246
Dispatch(t) ==
    /\ Runs(t, "dispatch")
    /\ LET task == tasks[t]
       IN IF ~mw.enabled
          THEN Step(t, Forward(task))
          ELSE IF Classify(mw, task.req.path) = "protected"
          THEN IF get_client_identifier(task.req).raised
               THEN Step(t, Raise([task EXCEPT !.steps = Append(@, "protected")],
                                  get_client_identifier(task.req).value))
               ELSE Step(t, [task EXCEPT
                                !.pc = "rl_refill",
                                !.client_id = get_client_identifier(task.req).value,
                                !.steps = Append(@, "protected")])
          ELSE Step(t, Forward([task EXCEPT
                                   !.steps = Append(@, Classify(mw, task.req.path))]))
    /\ UNCHANGED <<now, config, subsec, issued_at, threads, rlVars, regVars, mgr, mw, tokens, serial_rl, received>>

\* check_rate_limit lines 120-142
RlRefill(t) ==
    /\ Runs(t, "rl_refill")
    /\ LET task == [tasks[t] EXCEPT !.steps = Append(@, "rate_limit")]
           c == task.client_id
       IN IF ~config.rate_limit_enabled
          THEN /\ Step(t, [task EXCEPT !.allowed = "allowed", !.serial_ok = "allowed",
                                       !.pc = AfterRateLimit(mw)])
               /\ UNCHANGED <<rate_limits, serial_rl>>
          ELSE LET rl1 == EnsureBucket(rate_limits, c, now)
                   r == CheckRateLimit(serial_rl, c, now)
               IN /\ rate_limits' = [rl1 EXCEPT ![c] = Refill(rl1[c], now)]
                  /\ serial_rl' = r.rl
                  /\ Step(t, [task EXCEPT !.pc = "rl_prune", !.t_now = now,
                                 !.serial_ok = IF r.ok THEN "allowed" ELSE "denied"])
    /\ UNCHANGED <<now, config, subsec, issued_at, threads, rl_log, last_checked, regVars, mgr, mw, tokens, received>>

\* check_rate_limit lines 145-148
RlPrune(t) ==
    /\ Runs(t, "rl_prune")
    /\ rate_limits' = [rate_limits EXCEPT
                          ![tasks[t].client_id] = Prune(@, tasks[t].t_now)]
    /\ Step(t, [tasks[t] EXCEPT !.pc = "rl_decide"])
    /\ UNCHANGED <<now, config, subsec, issued_at, threads, rl_log, last_checked, regVars, mgr, mw, tokens,
                   serial_rl, received>>

\* check_rate_limit lines 151-155 and dispatch lines 247-252
RlDecide(t) ==
    /\ Runs(t, "rl_decide")
    /\ IF Admits(rate_limits[tasks[t].client_id])
       THEN Step(t, [tasks[t] EXCEPT !.pc = "rl_update"])
       ELSE Step(t, Respond([tasks[t] EXCEPT !.allowed = "denied"],
                            429, "rate_limit_exceeded"))
    /\ UNCHANGED <<now, config, subsec, issued_at, threads, rlVars, regVars, mgr, mw, tokens, serial_rl, received>>

\* check_rate_limit lines 158-161
RlUpdate(t) ==
    /\ Runs(t, "rl_update")
    /\ rate_limits' = [rate_limits EXCEPT
                          ![tasks[t].client_id] = Consume(@, tasks[t].t_now)]
    /\ Step(t, [tasks[t] EXCEPT !.allowed = "allowed", !.pc = AfterRateLimit(mw)])
    /\ UNCHANGED <<now, config, subsec, issued_at, threads, rl_log, last_checked, regVars, mgr, mw, tokens,
                   serial_rl, received>>

\* lines 255-269: the awaited custom check has answered
CustomAuthCheck(t) ==
    /\ Runs(t, "custom_auth_check")
    /\ LET task == [tasks[t] EXCEPT !.steps = Append(@, "custom_auth_check")]
       IN IF mw.custom_auth_check = "accept"
          THEN Step(t, [task EXCEPT !.pc = "authenticate"])
          ELSE IF mw.custom_auth_check = "reject"
          THEN Step(t, Respond(task, 401, "authentication_failed"))
          ELSE Step(t, Respond(task, 401, "authentication_error"))
    /\ UNCHANGED <<now, config, subsec, issued_at, threads, rlVars, regVars, mgr, mw, tokens, serial_rl, received>>

\* a dispatch that gives the token and the window slot back when the request
\* is answered 401
Refund(rl, c) ==
    IF c \in DOMAIN rl /\ Len(rl[c].requests) > 0
    THEN [rl EXCEPT ![c] = [@ EXCEPT !.requests = SubSeq(@, 1, Len(@) - 1),
                                    !.burst_tokens = @ + 1]]
    ELSE rl

AuthenticateRefunding(t) ==
    /\ Runs(t, "authenticate")
    /\ LET task == [tasks[t] EXCEPT !.steps = Append(@, "authenticate")]
           r == create_security_context(mw, config, Registry("middleware"),
                                        task.req, now)
           withCtx == [task EXCEPT !.ctx = r.ctx]
       IN /\ SetRegistry("middleware", r.reg)
          /\ IF AuthOutcome(r.ctx) = 401
             THEN /\ Step(t, Respond(withCtx, 401, "authentication_required"))
                  /\ rate_limits' = Refund(rate_limits, task.client_id)
             ELSE /\ Step(t, Forward([withCtx EXCEPT !.state_ctx = TRUE]))
                  /\ UNCHANGED rate_limits
    /\ UNCHANGED <<now, config, subsec, issued_at, threads, rl_log, last_checked,
                   next_key, ret, revoked, ever_revoked, reg_ops,
                   mgr, mw, tokens, serial_rl, received>>

\* lines 272-295
Authenticate(t) ==
    /\ Runs(t, "authenticate")
    /\ LET task == [tasks[t] EXCEPT !.steps = Append(@, "authenticate")]
           r == create_security_context(mw, config, Registry("middleware"),
                                        task.req, now)
           withCtx == [task EXCEPT !.ctx = r.ctx]
       IN /\ SetRegistry("middleware", r.reg)
          /\ IF AuthOutcome(r.ctx) = 401
             THEN Step(t, Respond(withCtx, 401, "authentication_required"))
             ELSE IF AuthOutcome(r.ctx) = 403
             THEN Step(t, Respond(withCtx, 403, "authorization_failed"))
             ELSE Step(t, Forward([withCtx EXCEPT !.state_ctx = TRUE]))
    /\ UNCHANGED <<now, config, subsec, issued_at, threads, rlVars, next_key, ret, revoked, ever_revoked, reg_ops,
                   mgr, mw, tokens, serial_rl, received>>

\* The downstream handler has answered or raised; lines 232, 239, 243 and
\* 295-301. Its exception is caught at line 309 if call_next was awaited
\* inside the try block (line 295), and leaves dispatch otherwise.
CallNext(t) ==
    /\ Runs(t, "call_next")
    /\ IF tasks[t].req.downstream = "ok"
       THEN Step(t, [tasks[t] EXCEPT
                        !.pc = "done", !.status = 200,
                        !.x_security_context = IF tasks[t].state_ctx
                                               THEN "authenticated" ELSE "",
                        !.x_auth_type = IF tasks[t].state_ctx
                                        THEN tasks[t].ctx.auth_type ELSE ""])
       ELSE IF tasks[t].state_ctx
       THEN Step(t, Respond(tasks[t], 500, "internal_error"))
       ELSE Step(t, Raise(tasks[t], "Exception"))
    /\ UNCHANGED <<now, config, subsec, issued_at, threads, rlVars, regVars, mgr, mw, tokens, serial_rl, received>>

(***************************************************************************)
(* The SecurityManager's operations on its own handler.                    *)
(***************************************************************************)
\* One more call on the manager, made while no dispatch segment is running
\* (from a route handler or a start-up script); only the manager's handler
\* and the set of issued tokens can change.
MgrStep ==
    /\ running = 0
    /\ UNCHANGED <<now, config, subsec, issued_at, threads, rlVars, ret, reg_ops,
                   mgr, mw, tasks, running, serial_rl, received>>

\* security/__init__.py lines 216-231
MgrCreateApiKey ==
    /\ MgrStep
    /\ next_key + Cardinality(tokens) < MaxIssued
    /\ IF mgr.auth_handler \in {"api_key", "hybrid"}
       THEN \E user_id \in UserIds :
               LET r == create_api_key(Registry("manager"), next_key + 1, "svc-a",
                                       user_id, <<>>, <<>>, <<>>, now)
               IN /\ SetRegistry("manager", r.reg)
                  /\ next_key' = next_key + 1
       ELSE UNCHANGED <<api_keys, key_hashes, next_key>>
    /\ UNCHANGED <<revoked, ever_revoked, tokens>>

\* security/__init__.py lines 261-267
MgrRevokeApiKey ==
    /\ MgrStep
    /\ \E key_id \in KeyIds :
          IF mgr.auth_handler \in {"api_key", "hybrid"}
          THEN LET r == revoke_api_key(Registry("manager"), key_id)
               IN /\ SetRegistry("manager", r.reg)
                  /\ revoked' = IF r.value THEN revoked \cup {key_id} ELSE revoked
                  /\ ever_revoked' = IF r.value THEN ever_revoked \cup {key_id}
                                     ELSE ever_revoked
          ELSE UNCHANGED <<api_keys, key_hashes, revoked, ever_revoked>>
    /\ UNCHANGED <<next_key, tokens>>

\* security/__init__.py lines 162-174
MgrCreateJwtToken ==
    /\ MgrStep
    /\ next_key + Cardinality(tokens) < MaxIssued
    /\ IF mgr.auth_handler \in {"jwt", "hybrid"}
       THEN tokens' = tokens \cup
                  {create_access_token(config, "u1", "alice", <<>>, <<>>, NoClaims, now)}
       ELSE UNCHANGED tokens
    /\ UNCHANGED <<api_keys, key_hashes, next_key, revoked, ever_revoked>>

TickDispatch ==
    /\ \E d \in DispatchTimeSteps :
          /\ now + d <= MaxDispatchTime
          /\ now' = now + d
    /\ UNCHANGED <<config, subsec, issued_at, threads, rlVars, regVars, dispVars>>

(***************************************************************************)
(* Spec: the manager and the middleware built from one configuration,      *)
(* serving requests.                                                       *)
(***************************************************************************)
PathConfigs ==
    {[excluded_paths |-> << <<"health">> >>, protected_paths |-> << <<"api", "v1">> >>],
     [excluded_paths |-> << <<"health">>, <<"api", "v1", "public">> >>,
      protected_paths |-> << <<"api", "v1">> >>],
     [excluded_paths |-> << <<"health">> >>, protected_paths |-> <<>>],
     [excluded_paths |-> <<>>, protected_paths |-> <<>>]}

AllConfigs ==
    [enabled : BOOLEAN,
     auth_type : AuthTypes \cup {"oauth"},
     jwt_secret_key : {None, "s3cret"},
     prefer_jwt : {TRUE},
     jwt_access_token_expire_minutes : {1},
     jwt_refresh_token_expire_days : {1},
     rate_limit_enabled : BOOLEAN,
     rate_limit_requests_per_minute : {2},
     rate_limit_burst_size : {1},
     excluded_paths : {p.excluded_paths : p \in PathConfigs},
     protected_paths : {p.protected_paths : p \in PathConfigs},
     custom_auth_check : {"none", "accept", "reject"}]

\* The configurations served: the authentication settings, the path lists
\* and the rate-limit / custom-check settings each vary against a base.
BaseAuth(c) == c.enabled /\ c.auth_type = "jwt" /\ c.jwt_secret_key # None
BasePaths(c) ==
    /\ c.excluded_paths = << <<"health">> >>
    /\ c.protected_paths = << <<"api", "v1">> >>
BaseChecks(c) == c.rate_limit_enabled /\ c.custom_auth_check = "none"

DispatchConfigs ==
    {c \in AllConfigs :
        /\ [excluded_paths |-> c.excluded_paths,
            protected_paths |-> c.protected_paths] \in PathConfigs
        /\ \/ BasePaths(c) /\ BaseChecks(c)
           \/ BaseAuth(c) /\ BaseChecks(c)
           \/ BaseAuth(c) /\ BasePaths(c)}

DispatchIdle ==
    /\ mgr = [auth_handler |-> None, middleware_class |-> FALSE, initialized |-> FALSE]
    /\ mw = [enabled |-> FALSE, auth_handler |-> None]
    /\ tokens = {}
    /\ tasks = [t \in Tasks |-> IdleTask]
    /\ running = 0
    /\ serial_rl = <<>>
    /\ received = 0

Init ==
    /\ now = 0
    /\ config \in DispatchConfigs
    /\ rate_limits = <<>>
    /\ rl_log = [c \in ClientIds |-> <<>>]
    /\ last_checked = ""
    /\ RegIdle
    /\ mgr = NewSecurityManager(config)
    /\ mw = NewSecurityMiddleware(config)
    /\ tokens = {}
    /\ tasks = [t \in Tasks |-> IdleTask]
    /\ running = 0
    /\ serial_rl = <<>>
    /\ received = 0

Next ==
    \/ \E t \in Tasks : Receive(t)
    \/ \E t \in Tasks : Dispatch(t)
    \/ \E t \in Tasks : RlRefill(t)
    \/ \E t \in Tasks : RlPrune(t)
    \/ \E t \in Tasks : RlDecide(t)
    \/ \E t \in Tasks : RlUpdate(t)
    \/ \E t \in Tasks : CustomAuthCheck(t)
    \/ \E t \in Tasks : Authenticate(t)
    \/ \E t \in Tasks : CallNext(t)
    \/ MgrCreateApiKey
    \/ MgrRevokeApiKey
    \/ MgrCreateJwtToken
    \/ TickDispatch

Spec == Init /\ [][Next]_vars

(***************************************************************************)
(* Configurations.                                                         *)
(***************************************************************************)
RLConfigs ==
    [rate_limit_enabled : {TRUE},
     rate_limit_requests_per_minute : Rates,
     rate_limit_burst_size : 1..MaxBurst]

TotalCalls ==
    LET RECURSIVE Sum(_)
        Sum(S) == IF S = {} THEN 0
                  ELSE LET c == CHOOSE x \in S : TRUE
                       IN Len(rl_log[c]) + Sum(S \ {c})
    IN Sum(ClientIds)

(***************************************************************************)
(* SpecRL: the rate limiter called directly.                               *)
(***************************************************************************)
InitRL ==
    /\ now = 0
    /\ config \in RLConfigs
    /\ rate_limits = <<>>
    /\ rl_log = [c \in ClientIds |-> <<>>]
    /\ last_checked = ""
    /\ RegIdle
    /\ DispatchIdle

CallCheckRateLimit(c) ==
    /\ TotalCalls < MaxCalls
    /\ LET r == CheckRateLimit(rate_limits, c, now)
       IN /\ rate_limits' = r.rl
          /\ rl_log' = [rl_log EXCEPT ![c] = Append(@, [t |-> now, ok |-> r.ok])]
    /\ last_checked' = c
    /\ UNCHANGED <<now, config, subsec, issued_at, threads, regVars, dispVars>>

Tick ==
    /\ \E d \in TimeSteps :
          /\ now + d <= MaxTime
          /\ now' = now + d
    /\ last_checked' = ""
    /\ UNCHANGED <<config, subsec, issued_at, threads, rate_limits, rl_log, regVars, dispVars>>

NextRL ==
    \/ \E c \in ClientIds : CallCheckRateLimit(c)
    \/ Tick

SpecRL == InitRL /\ [][NextRL]_vars

(***************************************************************************)
(* SpecReg: one APIKeyHandler (the manager's) driven directly.             *)
(***************************************************************************)
Names == {"svc-a"}
RegTimeSteps == {30}                     \* the clock advances by this much
ExpiryTimes == {<<>>, <<30>>}            \* expires_at given at creation
NewNames == {None, "svc-b"}              \* update_api_key arguments
NewPermissions == {<<>>, <<(<<"write">>)>>}
NewRateLimits == {<<>>, <<5>>}
NewExpiryTimes == {<<>>, <<60>>}
NewActive == {<<>>, <<TRUE>>, <<FALSE>>}
GivenCount(a) ==
    (IF a.name # None THEN 1 ELSE 0) + Len(a.permissions) + Len(a.rate_limit)
    + Len(a.expires_at) + Len(a.is_active)
\* update_api_key calls: no argument, any single argument, or all of them
UpdateArgs ==
    {a \in [name : NewNames, permissions : NewPermissions, rate_limit : NewRateLimits,
             expires_at : NewExpiryTimes, is_active : NewActive] :
        GivenCount(a) <= 1 \/ GivenCount(a) = 5}

InitReg ==
    /\ now = 0
    /\ config \in {c \in RLConfigs : c.rate_limit_requests_per_minute = 1
                                      /\ c.rate_limit_burst_size = 1}
    /\ rate_limits = <<>>
    /\ rl_log = [c \in ClientIds |-> <<>>]
    /\ last_checked = ""
    /\ RegIdle
    /\ DispatchIdle

\* one more direct call; nothing but the registry changes
RegStep ==
    /\ reg_ops < MaxRegOps
    /\ reg_ops' = reg_ops + 1
    /\ UNCHANGED <<now, config, subsec, issued_at, threads, rlVars, dispVars>>

RegCreate(h) ==
    /\ RegStep
    /\ next_key < MaxKeys
    /\ \E name \in Names, user_id \in UserIds, expires_at \in ExpiryTimes :
          LET r == create_api_key(Registry(h), next_key + 1, name, user_id,
                                  <<"read">>, <<>>, expires_at, now)
          IN /\ SetRegistry(h, r.reg)
             /\ ret' = [op |-> "create_api_key", api_key |-> r.value[1],
                        key_id |-> r.value[2].key_id]
    /\ next_key' = next_key + 1
    /\ UNCHANGED <<revoked, ever_revoked>>

RegValidate(h) ==
    /\ RegStep
    /\ \E api_key \in RawKeys \cup {EmptyString} :
          LET r == validate_api_key(Registry(h), api_key, now)
          IN /\ SetRegistry(h, r.reg)
             /\ ret' = [op |-> "validate_api_key", api_key |-> api_key,
                        found |-> r.found]
    /\ UNCHANGED <<next_key, revoked, ever_revoked>>

RegRevoke(h) ==
    /\ RegStep
    /\ \E key_id \in KeyIds :
          LET r == revoke_api_key(Registry(h), key_id)
          IN /\ SetRegistry(h, r.reg)
             /\ ret' = [op |-> "revoke_api_key", key_id |-> key_id, value |-> r.value,
                        was_active |-> /\ key_id \in DOMAIN api_keys[h]
                                       /\ api_keys[h][key_id].is_active]
             /\ revoked' = IF r.value THEN revoked \cup {key_id} ELSE revoked
             /\ ever_revoked' = IF r.value THEN ever_revoked \cup {key_id}
                                ELSE ever_revoked
    /\ UNCHANGED next_key

RegUpdate(h) ==
    /\ RegStep
    /\ \E key_id \in KeyIds, a \in UpdateArgs :
          LET r == update_api_key(Registry(h), key_id, a.name, a.permissions,
                                  a.rate_limit, a.expires_at, a.is_active)
          IN /\ SetRegistry(h, r.reg)
             /\ ret' = [op |-> "update_api_key", key_id |-> key_id, value |-> r.value,
                        args |-> a]
             /\ revoked' = IF r.value /\ a.is_active = <<TRUE>>
                           THEN revoked \ {key_id} ELSE revoked
    /\ UNCHANGED <<next_key, ever_revoked>>

RegCleanup(h) ==
    /\ RegStep
    /\ LET r == cleanup_expired_keys(Registry(h), now)
       IN /\ SetRegistry(h, r.reg)
          /\ ret' = [op |-> "cleanup_expired_keys", value |-> r.value]
    /\ UNCHANGED <<next_key, revoked, ever_revoked>>

TickReg ==
    /\ \E d \in RegTimeSteps :
          /\ now + d <= MaxRegTime
          /\ now' = now + d
    /\ UNCHANGED <<config, subsec, issued_at, threads, rlVars, regVars, dispVars>>

\* list_api_keys, lines 222-227: the records in dict (insertion) order,
\* filtered by user_id when one is given
list_api_keys(reg, user_id) ==
    LET RECURSIVE InOrder(_)
        InOrder(ids) ==
            IF ids = {} THEN <<>>
            ELSE LET k == CHOOSE x \in ids : \A y \in ids : x[2] <= y[2]
                 IN <<reg.api_keys[k]>> \o InOrder(ids \ {k})
        keys == InOrder(DOMAIN reg.api_keys)
    IN IF user_id # None
       THEN SelectSeq(keys, LAMBDA key : key.user_id = user_id)
       ELSE keys

\* get_api_key, line 239: <<>> is None
get_api_key(reg, key_id) ==
    IF key_id \in DOMAIN reg.api_keys THEN <<reg.api_keys[key_id]>> ELSE <<>>

\* get_stats, lines 313-325
get_stats(reg, t) ==
    LET total_keys == Cardinality(DOMAIN reg.api_keys)
        active_keys == Cardinality({k \in DOMAIN reg.api_keys :
                                      reg.api_keys[k].is_active})
    IN [total_keys |-> total_keys,
        active_keys |-> active_keys,
        expired_keys |-> Cardinality({k \in DOMAIN reg.api_keys :
                                        Expired(reg.api_keys[k], t)}),
        inactive_keys |-> total_keys - active_keys]

\* a call that only reads the registry
RegRead ==
    /\ RegStep
    /\ UNCHANGED <<api_keys, key_hashes, next_key, revoked, ever_revoked>>

RegList(h) ==
    /\ RegRead
    /\ \E user_id \in {None} \cup UserIds :
          ret' = [op |-> "list_api_keys", value |-> list_api_keys(Registry(h), user_id)]

RegGet(h) ==
    /\ RegRead
    /\ \E key_id \in KeyIds :
          ret' = [op |-> "get_api_key", key_id |-> key_id,
                  value |-> get_api_key(Registry(h), key_id)]

RegStats(h) ==
    /\ RegRead
    /\ ret' = [op |-> "get_stats", value |-> get_stats(Registry(h), now)]

NextReg ==
    \/ RegCreate("manager")
    \/ RegList("manager")
    \/ RegGet("manager")
    \/ RegStats("manager")
    \/ RegValidate("manager")
    \/ RegRevoke("manager")
    \/ RegUpdate("manager")
    \/ RegCleanup("manager")
    \/ TickReg

SpecReg == InitReg /\ [][NextReg]_vars

(***************************************************************************)
(* Claims about the key registry (checked under SpecReg).                  *)
(***************************************************************************)
RawKeyOfId(key_id) == RawKeyOf(key_id[2])

ValidatesNow(h, key_id) == validate_api_key(Registry(h), RawKeyOfId(key_id), now).found

\* C3 (as stated): once revoke_api_key(key_id) has returned true,
\* validate_api_key on that key's raw secret returns None in every later
\* state, whatever registry operations follow.
C3_RevokedNeverValidates ==
    \A key_id \in ever_revoked : ~ValidatesNow("manager", key_id)

\* C3 (amended): once revoke_api_key(key_id) has returned true,
\* validate_api_key on that key's raw secret returns None in every later
\* state, as long as no update_api_key(key_id, is_active=True) has followed.
C3_RevokedStaysInvalidUntilReactivated ==
    \A key_id \in revoked : ~ValidatesNow("manager", key_id)

\* C3 witness: an update was just applied to a revoked key whose record is
\* still stored and unexpired, and the key is still revoked.
C3_Witness ==
    /\ ret.op = "update_api_key"
    /\ ret.value
    /\ ret.key_id \in revoked
    /\ ret.key_id \in DOMAIN api_keys["manager"]
    /\ ~Expired(api_keys["manager"][ret.key_id], now)

(***************************************************************************)
(* Claims about the rate limiter (checked under SpecRL).                   *)
(***************************************************************************)
Burst == config.rate_limit_burst_size
Rate == config.rate_limit_requests_per_minute
RefillWait == SecondsPerMinute \div Rate   \* 60/R seconds; R divides 60 in Rates

\* The first i calls of log L were all made at the instant of the first one.
AllAtFirstInstant(L, i) == \A j \in 1..i : L[j].t = L[1].t

\* Calls Burst+2..i of log L were made exactly 60/R seconds after the burst,
\* which consisted of exactly Burst+1 calls.
BurstThenWait(L, i) ==
    /\ i > Burst + 1
    /\ i <= Len(L)
    /\ AllAtFirstInstant(L, Burst + 1)
    /\ \A j \in (Burst + 2)..i : L[j].t = L[1].t + RefillWait

BurstScenarioHolds(L) ==
    /\ \A i \in 1..Len(L) :
          (i <= Burst + 1 /\ AllAtFirstInstant(L, i)) => (L[i].ok = (i <= Burst))
    /\ \A i \in 1..Len(L) :
          (i <= Burst + 3 /\ BurstThenWait(L, i)) => (L[i].ok = (i = Burst + 2))

\* C8 (as stated): for a fresh client and every B >= 1, R >= 1, B calls at one
\* instant are all allowed, call B+1 at that instant is denied, and 60/R
\* seconds later exactly one further call is allowed.
C8_BurstThenOneForEveryConfig ==
    \A c \in ClientIds : BurstScenarioHolds(rl_log[c])

\* C8 (amended): the same, for configurations with B < R, or B = R = 1: the
\* sliding window (at most R requests per 60 s) does not cut into the burst.
WindowSparesBurst == Burst < Rate \/ (Burst = 1 /\ Rate = 1)

C8_BurstThenOneWhenWindowSparesBurst ==
    WindowSparesBurst => \A c \in ClientIds : BurstScenarioHolds(rl_log[c])

\* C8 witness: a client has run the whole scenario (B allowed, one denied,
\* the wait of 60/R, one allowed, one denied).
C8_Witness ==
    /\ WindowSparesBurst
    /\ \E c \in ClientIds :
          LET L == rl_log[c]
          IN /\ Len(L) = Burst + 3
             /\ BurstThenWait(L, Burst + 3)
             /\ \A i \in 1..Burst : L[i].ok
             /\ ~L[Burst + 1].ok
             /\ L[Burst + 2].ok
             /\ ~L[Burst + 3].ok

\* C9: every bucket has 0 <= burst_tokens <= rate_limit_burst_size, and right
\* after a check the checked bucket's window holds only timestamps less than
\* 60 s old, at most rate_limit_requests_per_minute of them.
C9_BucketInvariant ==
    /\ \A c \in DOMAIN rate_limits :
          /\ 0 <= rate_limits[c].burst_tokens
          /\ rate_limits[c].burst_tokens <= Burst
    /\ (last_checked # "" /\ last_checked \in DOMAIN rate_limits) =>
          LET w == rate_limits[last_checked].requests
          IN /\ \A i \in 1..Len(w) : now - w[i] < WindowSeconds
             /\ Len(w) <= Rate

\* C9 witness: a check that pruned an old entry and left the bucket with a
\* full window and a refilled, capped token count.
C9_Witness ==
    /\ last_checked \in DOMAIN rate_limits
    /\ LET b == rate_limits[last_checked]
           L == rl_log[last_checked]
       IN /\ Len(b.requests) = Rate
          /\ \E i \in 1..Len(L) : L[i].ok /\ now - L[i].t >= WindowSeconds
          /\ \E i \in 1..Len(L) : ~L[i].ok

(***************************************************************************)
(* Claims about dispatch (checked under Spec).                             *)
(***************************************************************************)
Has(steps, x) == \E i \in 1..Len(steps) : steps[i] = x

Forwarded(t) == Has(tasks[t].steps, "call_next")

\* C1: with the dispatcher enabled (self.enabled, the flag dispatch tests
\* first), a request whose path is classified protected reaches call_next only
\* if check_rate_limit allowed it and the auth strategy returned a context
\* with is_authenticated and is_authorized; a rate-limited request, one with
\* missing, invalid or expired credentials, and any request when there is no
\* auth handler, is never forwarded.
C1_ForwardedOnlyIfAllowedAndAuthenticated ==
    \A t \in Tasks :
       (mw.enabled /\ Classify(mw, tasks[t].req.path) = "protected") =>
          /\ Forwarded(t) =>
                /\ tasks[t].allowed = "allowed"
                /\ tasks[t].ctx.source = "handler"
                /\ tasks[t].ctx.is_authenticated
                /\ tasks[t].ctx.is_authorized
                /\ mw.auth_handler # None
          /\ tasks[t].status \in {401, 403, 429} => ~Forwarded(t)

\* C1 witness: protected requests have met both fates: one was forwarded and
\* answered after authenticating, another was turned away with 401.
C1_Witness ==
    /\ mw.enabled
    /\ \E t, u \in Tasks :
          /\ Classify(mw, tasks[t].req.path) = "protected"
          /\ Classify(mw, tasks[u].req.path) = "protected"
          /\ tasks[t].status = 200
          /\ tasks[t].ctx.is_authenticated
          /\ tasks[u].status = 401
          /\ tasks[u].error = "authentication_required"

\* The configuration asks for security with a JWT-capable strategy and gives
\* no signing secret.
MissingSecret ==
    /\ config.enabled
    /\ config.auth_type \in {"jwt", "hybrid"}
    /\ config.jwt_secret_key = None

\* C2 (as stated): under a configuration with security enabled, a JWT-capable
\* auth type and no signing secret, no request to a protected path is ever
\* forwarded to the downstream handler.
C2_MissingSecretNeverForwards ==
    MissingSecret =>
       \A t \in Tasks :
          (~is_path_excluded(mw, tasks[t].req.path)
              /\ is_path_protected(mw, tasks[t].req.path)) => ~Forwarded(t)

\* A manager-issued key that is live in the manager's registry: present,
\* active, unexpired and never revoked.
LiveManagerKey(api_key) ==
    /\ api_key # NoKey
    /\ validate_api_key(Registry("manager"), api_key, now).found
    /\ \A key_id \in ever_revoked : RawKeyOfId(key_id) # api_key

\* C4 (as stated): with auth_type api_key, a request to a protected path that
\* carries in X-API-Key a key created through the manager (and not revoked)
\* is forwarded by the manager's middleware and answered 200 with
\* X-Auth-Type: api_key.
C4_ManagerKeyAuthenticatesAtMiddleware ==
    \A t \in Tasks :
       (/\ config.enabled
        /\ config.auth_type = "api_key"
        /\ tasks[t].pc = "done"
        /\ Classify(mw, tasks[t].req.path) = "protected"
        /\ tasks[t].allowed = "allowed"
        /\ Has(tasks[t].steps, "authenticate")
        /\ LiveManagerKey(tasks[t].req.api_key_header)) =>
          /\ tasks[t].status = 200
          /\ tasks[t].x_auth_type = "api_key"

\* C5: a request whose path prefix-matches an excluded path is classified
\* excluded and forwarded without rate limiting or authentication, also when
\* the path prefix-matches a protected path as well.
C5_ExcludedWins ==
    \A t \in Tasks :
       (is_path_excluded(mw, tasks[t].req.path)
           /\ tasks[t].pc \notin {"idle", "dispatch"}) =>
          /\ tasks[t].pc \in {"call_next", "done"}
          /\ Forwarded(t)
          /\ mw.enabled => tasks[t].steps[1] = "excluded"
          /\ ~Has(tasks[t].steps, "rate_limit")
          /\ ~Has(tasks[t].steps, "custom_auth_check")
          /\ ~Has(tasks[t].steps, "authenticate")
          /\ ~tasks[t].state_ctx
          /\ tasks[t].pc = "done" => tasks[t].status = 200 /\ tasks[t].x_auth_type = ""

\* C5 witness: an enabled dispatcher has forwarded, unauthenticated, a request
\* without credentials whose path matches both an excluded and a protected
\* prefix.
C5_Witness ==
    /\ mw.enabled
    /\ \E t \in Tasks :
          /\ is_path_excluded(mw, tasks[t].req.path)
          /\ \E i \in 1..Len(mw.protected_paths) :
                startswith(tasks[t].req.path, mw.protected_paths[i])
          /\ tasks[t].req.token = NoToken
          /\ tasks[t].req.api_key_header = NoKey
          /\ tasks[t].status = 200

\* C6: when the protected-path list is empty, every path matching no
\* excluded prefix is treated as protected by the enabled dispatcher: such a
\* request is classified protected and reaches call_next only after passing
\* the rate limiter and authentication.
C6_EmptyProtectedListProtectsAll ==
    \A t \in Tasks :
       (/\ mw.enabled
        /\ mw.protected_paths = <<>>
        /\ ~is_path_excluded(mw, tasks[t].req.path)
        /\ tasks[t].pc \notin {"idle", "dispatch"}) =>
          /\ tasks[t].steps[1] = "protected"
          /\ Forwarded(t) =>
                /\ Has(tasks[t].steps, "rate_limit")
                /\ tasks[t].allowed = "allowed"
                /\ Has(tasks[t].steps, "authenticate")
                /\ tasks[t].ctx.is_authenticated
                /\ tasks[t].ctx.is_authorized

\* C6 witness: with an empty protected list, a path outside every configured
\* prefix was refused for want of credentials, and another request to such a
\* path was forwarded after authenticating.
C6_Witness ==
    /\ mw.enabled
    /\ mw.protected_paths = <<>>
    /\ \E t, u \in Tasks :
          /\ tasks[t].req.path = <<"other">>
          /\ tasks[t].status = 401
          /\ ~Forwarded(t)
          /\ ~is_path_excluded(mw, tasks[u].req.path)
          /\ tasks[u].status = 200
          /\ tasks[u].ctx.is_authenticated

\* The position of a step in a task's trace, 0 when it has not happened.
StepIndex(steps, x) ==
    IF Has(steps, x) THEN CHOOSE i \in 1..Len(steps) : steps[i] = x ELSE 0

\* x happened only after y had.
Follows(steps, x, y) ==
    Has(steps, x) => (Has(steps, y) /\ StepIndex(steps, y) < StepIndex(steps, x))

ProtectedOrder(task) ==
    /\ Follows(task.steps, "rate_limit", "protected")
    /\ Follows(task.steps, "custom_auth_check", "rate_limit")
    /\ Follows(task.steps, "authenticate", "rate_limit")
    /\ Follows(task.steps, "call_next", "authenticate")
    /\ task.status = 200 =>
          (Has(task.steps, "authenticate") /\ Has(task.steps, "call_next"))
    /\ Has(task.steps, "authenticate") => task.allowed = "allowed"
    /\ task.status = 429 =>
          /\ task.allowed = "denied"
          /\ task.error = "rate_limit_exceeded"
          /\ ~Has(task.steps, "authenticate")
          /\ ~Has(task.steps, "call_next")
    /\ task.allowed = "denied" => task.status = 429
    /\ task.status \in {401, 403} => ~Has(task.steps, "call_next")

\* C7: for every protected request the steps come in the order path
\* classification, rate-limit check, strategy authentication, downstream
\* handler; a request denied by the rate limiter is answered 429 without
\* reaching the auth strategy (the step that denies it leaves every key
\* record, last_used included, as it was), and a request that fails
\* authentication never reaches the downstream handler.
C7_ProtectedStepsInOrder ==
    /\ [](\A t \in Tasks :
            (mw.enabled /\ Classify(mw, tasks[t].req.path) = "protected") =>
                ProtectedOrder(tasks[t]))
    /\ [][\A t \in Tasks :
             /\ (tasks'[t].status = 429 /\ tasks[t].status # 429) =>
                   UNCHANGED <<api_keys, key_hashes>>
             /\ (api_keys' # api_keys /\ tasks'[t] # tasks[t]) =>
                   /\ tasks[t].pc = "authenticate"
                   /\ tasks[t].allowed = "allowed"]_vars

\* C7 witness: one protected request went through all four steps and was
\* answered 200; another was stopped at the rate limiter with 429.
C7_Witness ==
    /\ mw.enabled
    /\ \E t, u \in Tasks :
          /\ tasks[t].steps = <<"protected", "rate_limit", "authenticate", "call_next">>
          /\ tasks[t].status = 200
          /\ tasks[u].steps = <<"protected", "rate_limit">>
          /\ tasks[u].status = 429

\* No dispatch coroutine is between the start and the end of check_rate_limit.
NoCheckInProgress ==
    \A t \in Tasks : tasks[t].pc \notin {"rl_prune", "rl_decide", "rl_update"}

\* C10: the outcomes of the checks, under every interleaving of the
\* coroutines, are those of running the same checks one after another in the
\* order they began, and between checks the buckets are those the serial
\* execution leaves: no part of one check interleaves with another.
C10_ChecksSerializable ==
    /\ \A t \in Tasks :
          tasks[t].allowed # "unset" => tasks[t].allowed = tasks[t].serial_ok
    /\ NoCheckInProgress => rate_limits = serial_rl
    /\ \A t \in Tasks :
          tasks[t].pc \in {"rl_prune", "rl_decide", "rl_update"} => running = t

\* C10 witness: two requests of one client are in flight together at one
\* instant with one token left; the first was admitted and is suspended in
\* the downstream handler, the second was denied.
C10_Witness ==
    /\ config.rate_limit_burst_size = 1
    /\ \E t, u \in Tasks :
          /\ t # u
          /\ tasks[t].client_id = tasks[u].client_id
          /\ tasks[t].allowed = "allowed"
          /\ tasks[t].pc = "call_next"
          /\ tasks[u].allowed = "denied"
          /\ tasks[u].status = 429
          /\ tasks[u].t_now = tasks[t].t_now

(***************************************************************************)
(* SpecConc: one registry called from several threads. APIKeyHandler takes *)
(* no lock, so a call is a sequence of steps (one per statement touching   *)
(* the maps) between which another thread may run.                         *)
(***************************************************************************)
MaxConcOps == 3      \* registry calls started in one behaviour
ConcExpiryTimes == {<<>>, <<30>>}
ConcUpdateArgs == {a \in UpdateArgs : GivenCount(a) = 5}

Without(f, k) == [x \in DOMAIN f \ {k} |-> f[x]]

\* the first of a list of key ids built in dict (insertion) order
FirstKey(ids) == CHOOSE k \in ids : \A x \in ids : k[2] <= x[2]

ThreadStep(th, rec) == threads' = [threads EXCEPT ![th] = rec]

\* a thread enters a registry call
ThreadBegins(th) ==
    /\ threads[th].pc = "idle"
    /\ reg_ops < MaxConcOps
    /\ reg_ops' = reg_ops + 1
    /\ UNCHANGED <<now, config, subsec, issued_at, rlVars, ret, revoked, ever_revoked, dispVars>>

\* a thread goes on with the call it is in
ThreadAt(th, pc) ==
    /\ threads[th].pc = pc
    /\ UNCHANGED <<now, config, subsec, issued_at, rlVars, ret, revoked, ever_revoked, reg_ops,
                   next_key, dispVars>>

\* create_api_key up to "self._api_keys[key_id] = api_key_data" (lines 77-94)
ThCreateRecord(th) ==
    /\ ThreadBegins(th)
    /\ next_key < MaxKeys
    /\ next_key' = next_key + 1
    /\ \E expires_at \in ConcExpiryTimes :
          LET r == create_api_key(Registry("manager"), next_key + 1, "svc-a", "u1",
                                  <<"read">>, <<>>, expires_at, now)
          IN api_keys' = [api_keys EXCEPT !["manager"] = r.reg.api_keys]
    /\ ThreadStep(th, [IdleThread EXCEPT !.pc = "create_hash", !.op = "create_api_key",
                                         !.key_id = KeyIdOf(next_key + 1),
                                         !.api_key = RawKeyOf(next_key + 1)])
    /\ UNCHANGED key_hashes

\* "self._key_hashes[key_hash] = key_id" and the return (lines 95-96)
ThCreateHash(th) ==
    /\ ThreadAt(th, "create_hash")
    /\ key_hashes' = [key_hashes EXCEPT !["manager"] =
                         (hash_api_key(threads[th].api_key) :> threads[th].key_id) @@ @]
    /\ ThreadStep(th, [threads[th] EXCEPT !.pc = "idle", !.value = "created"])
    /\ UNCHANGED api_keys

\* cleanup_expired_keys: the loop that collects expired_keys (lines 289-294)
ThCleanupScan(th) ==
    /\ ThreadBegins(th)
    /\ LET expired == {k \in DOMAIN api_keys["manager"] :
                          Expired(api_keys["manager"][k], now)}
       IN ThreadStep(th, [IdleThread EXCEPT
                             !.op = "cleanup_expired_keys",
                             !.expired_keys = expired,
                             !.value = Cardinality(expired),
                             !.pc = IF expired = {} THEN "idle"
                                    ELSE "cleanup_del_record"])
    /\ UNCHANGED <<api_keys, key_hashes, next_key>>

\* "del self._api_keys[key_id]" (line 297): KeyError when the record is gone
ThCleanupDelRecord(th) ==
    /\ ThreadAt(th, "cleanup_del_record")
    /\ LET k == FirstKey(threads[th].expired_keys)
       IN IF k \in DOMAIN api_keys["manager"]
          THEN /\ api_keys' = [api_keys EXCEPT !["manager"] = Without(@, k)]
               /\ ThreadStep(th, [threads[th] EXCEPT !.pc = "cleanup_del_hash",
                                                     !.key_id = k])
          ELSE /\ ThreadStep(th, [threads[th] EXCEPT !.pc = "idle", !.key_id = k,
                                     !.error = "KeyError", !.value = "none"])
               /\ UNCHANGED api_keys
    /\ UNCHANGED key_hashes

\* the inner loop over list(self._key_hashes.items()) (lines 299-302)
ThCleanupDelHash(th) ==
    /\ ThreadAt(th, "cleanup_del_hash")
    /\ LET k == threads[th].key_id
           hs == {h \in DOMAIN key_hashes["manager"] : key_hashes["manager"][h] = k}
           rest == threads[th].expired_keys \ {k}
       IN /\ key_hashes' = IF hs = {} THEN key_hashes
                           ELSE [key_hashes EXCEPT !["manager"] =
                                    Without(@, CHOOSE h \in hs : TRUE)]
          /\ ThreadStep(th, [threads[th] EXCEPT
                                !.expired_keys = rest,
                                !.pc = IF rest = {} THEN "idle"
                                       ELSE "cleanup_del_record"])
    /\ UNCHANGED api_keys

\* validate_api_key up to "key_id = self._key_hashes.get(key_hash)"
\* (lines 108-115)
ThValidateLookup(th) ==
    /\ ThreadBegins(th)
    /\ \E api_key \in RawKeys :
          LET key_hash == hash_api_key(api_key)
              begun == [IdleThread EXCEPT !.op = "validate_api_key",
                                          !.api_key = api_key]
          IN IF key_hash \in DOMAIN key_hashes["manager"]
             THEN ThreadStep(th, [begun EXCEPT
                                     !.pc = "validate_record",
                                     !.key_id = key_hashes["manager"][key_hash]])
             ELSE ThreadStep(th, [begun EXCEPT !.value = "None"])
    /\ UNCHANGED <<api_keys, key_hashes, next_key>>

\* "api_key_data = self._api_keys.get(key_id)" and the checks on the record
\* (lines 117-132), with the key_id read before
ThValidateRecord(th) ==
    /\ ThreadAt(th, "validate_record")
    /\ LET seen == [api_keys |-> api_keys["manager"],
                    key_hashes |-> (hash_api_key(threads[th].api_key)
                                       :> threads[th].key_id)]
           r == validate_api_key(seen, threads[th].api_key, now)
       IN /\ api_keys' = [api_keys EXCEPT !["manager"] = r.reg.api_keys]
          /\ ThreadStep(th, [threads[th] EXCEPT
                                !.pc = "idle",
                                !.value = IF r.found THEN "record" ELSE "None"])
    /\ UNCHANGED key_hashes

\* revoke_api_key: "if key_id in self._api_keys" (line 207)
ThRevokeCheck(th) ==
    /\ ThreadBegins(th)
    /\ \E key_id \in KeyIds :
          LET begun == [IdleThread EXCEPT !.op = "revoke_api_key", !.key_id = key_id]
          IN IF key_id \in DOMAIN api_keys["manager"]
             THEN ThreadStep(th, [begun EXCEPT !.pc = "revoke_set"])
             ELSE ThreadStep(th, [begun EXCEPT !.value = FALSE])
    /\ UNCHANGED <<api_keys, key_hashes, next_key>>

\* "self._api_keys[key_id].is_active = False" (line 208): KeyError when the
\* record is gone
ThRevokeSet(th) ==
    /\ ThreadAt(th, "revoke_set")
    /\ LET r == revoke_api_key(Registry("manager"), threads[th].key_id)
       IN IF r.value
          THEN /\ api_keys' = [api_keys EXCEPT !["manager"] = r.reg.api_keys]
               /\ ThreadStep(th, [threads[th] EXCEPT !.pc = "idle", !.value = TRUE])
          ELSE /\ ThreadStep(th, [threads[th] EXCEPT !.pc = "idle",
                                                     !.error = "KeyError"])
               /\ UNCHANGED api_keys
    /\ UNCHANGED key_hashes

\* update_api_key: "if key_id not in self._api_keys" (line 264)
ThUpdateCheck(th) ==
    /\ ThreadBegins(th)
    /\ \E key_id \in KeyIds :
          LET begun == [IdleThread EXCEPT !.op = "update_api_key", !.key_id = key_id]
          IN IF key_id \in DOMAIN api_keys["manager"]
             THEN ThreadStep(th, [begun EXCEPT !.pc = "update_set"])
             ELSE ThreadStep(th, [begun EXCEPT !.value = FALSE])
    /\ UNCHANGED <<api_keys, key_hashes, next_key>>

\* "api_key_data = self._api_keys[key_id]" and the assignments (lines
\* 267-280): KeyError when the record is gone
ThUpdateSet(th) ==
    /\ ThreadAt(th, "update_set")
    /\ \E a \in ConcUpdateArgs :
          LET r == update_api_key(Registry("manager"), threads[th].key_id, a.name,
                                  a.permissions, a.rate_limit, a.expires_at,
                                  a.is_active)
          IN IF r.value
             THEN /\ api_keys' = [api_keys EXCEPT !["manager"] = r.reg.api_keys]
                  /\ ThreadStep(th, [threads[th] EXCEPT !.pc = "idle", !.value = TRUE])
             ELSE /\ ThreadStep(th, [threads[th] EXCEPT !.pc = "idle",
                                                        !.error = "KeyError"])
                  /\ UNCHANGED api_keys
    /\ UNCHANGED key_hashes

TickConc ==
    /\ \E d \in RegTimeSteps :
          /\ now + d <= MaxRegTime
          /\ now' = now + d
    /\ UNCHANGED <<config, subsec, issued_at, threads, rlVars, regVars, dispVars>>

InitConc == InitReg

NextConc ==
    \/ \E th \in ThreadIds : ThCreateRecord(th)
    \/ \E th \in ThreadIds : ThCreateHash(th)
    \/ \E th \in ThreadIds : ThCleanupScan(th)
    \/ \E th \in ThreadIds : ThCleanupDelRecord(th)
    \/ \E th \in ThreadIds : ThCleanupDelHash(th)
    \/ \E th \in ThreadIds : ThValidateLookup(th)
    \/ \E th \in ThreadIds : ThValidateRecord(th)
    \/ \E th \in ThreadIds : ThRevokeCheck(th)
    \/ \E th \in ThreadIds : ThRevokeSet(th)
    \/ \E th \in ThreadIds : ThUpdateCheck(th)
    \/ \E th \in ThreadIds : ThUpdateSet(th)
    \/ TickConc

SpecConc == InitConc /\ [][NextConc]_vars

(***************************************************************************)
(* Claims about the registry under concurrent calls (SpecConc).            *)
(***************************************************************************)
\* every hash-index entry names a stored record and every record is indexed
MapsConsistent(h) ==
    /\ \A x \in DOMAIN key_hashes[h] : key_hashes[h][x] \in DOMAIN api_keys[h]
    /\ \A k \in DOMAIN api_keys[h] :
          \E x \in DOMAIN key_hashes[h] : key_hashes[h][x] = k

AllCallsCompleted == \A th \in ThreadIds : threads[th].pc = "idle"

\* C11 (as stated): under any interleaving of concurrent registry calls, no
\* call fails because another call changed the maps midway, and once all
\* calls have completed every hash-index entry names a key_id that has a
\* record and every record has a hash-index entry.
C11_ConcurrentCallsIsolated ==
    /\ \A th \in ThreadIds : threads[th].error = "none"
    /\ AllCallsCompleted => MapsConsistent("manager")

(***************************************************************************)
(* SpecLive: the rate limiter called for ever. check_rate_limit uses the   *)
(* clock only through the differences now - last_refill and now - req_time,*)
(* so the passing of d seconds is recorded by moving every stored          *)
(* timestamp d seconds back while the clock reading stays put. A timestamp *)
(* is not moved further back than where its age stops mattering: 60 s for  *)
(* a window entry (pruned from then on), 60 * burst_size seconds for       *)
(* last_refill (the refill then reaches the cap for every rate >= 1).      *)
(***************************************************************************)
LiveClients == {"10.0.0.1"}
LiveHorizon == WindowSeconds * MaxBurst

Max(a, b) == IF a >= b THEN a ELSE b

\* the bucket as it is seen d seconds later
Aged(b, d) ==
    [b EXCEPT !.requests = [i \in 1..Len(@) |-> Max(@[i] - d, now - WindowSeconds)],
              !.last_refill = Max(@ - d, now - LiveHorizon)]

InitLive ==
    /\ now = LiveHorizon
    /\ config \in RLConfigs
    /\ rate_limits = <<>>
    /\ rl_log = [c \in ClientIds |-> <<>>]
    /\ last_checked = ""
    /\ RegIdle
    /\ DispatchIdle

\* one more check_rate_limit(c); rl_log keeps the latest outcome only
LiveCheck(c) ==
    /\ LET r == CheckRateLimit(rate_limits, c, now)
       IN /\ rate_limits' = r.rl
          /\ rl_log' = [rl_log EXCEPT ![c] = <<[t |-> now, ok |-> r.ok]>>]
    /\ last_checked' = c
    /\ UNCHANGED <<now, config, subsec, issued_at, threads, regVars, dispVars>>

\* d seconds pass
LiveTick ==
    /\ \E d \in TimeSteps :
          rate_limits' = [c \in DOMAIN rate_limits |-> Aged(rate_limits[c], d)]
    /\ last_checked' = ""
    /\ UNCHANGED <<now, config, subsec, issued_at, threads, rl_log, regVars, dispVars>>

NextLive ==
    \/ \E c \in LiveClients : LiveCheck(c)
    \/ LiveTick

\* Time keeps advancing and every client keeps sending requests.
SpecLive ==
    /\ InitLive
    /\ [][NextLive]_vars
    /\ WF_vars(LiveTick)
    /\ \A c \in LiveClients : WF_vars(LiveCheck(c))

LastDenied(c) == rl_log[c] # <<>> /\ ~rl_log[c][1].ok
LastAllowed(c) == rl_log[c] # <<>> /\ rl_log[c][1].ok

\* C12 (as stated): while time keeps advancing and the client keeps sending
\* requests at whatever spacing, a client that has been denied is allowed
\* again by some later check.
C12_DeniedClientRecovers ==
    \A c \in LiveClients : LastDenied(c) ~> LastAllowed(c)

(***************************************************************************)
(* Further claims about the key registry (SpecReg).                        *)
(***************************************************************************)
\* s is the raw key an earlier create_api_key returned, and the record made
\* by that call is still stored, active and not past expires_at (at time t).
IssuedAndLive(h, s, t) ==
    \E n \in 1..next_key :
       /\ s = RawKeyOf(n)
       /\ KeyIdOf(n) \in DOMAIN api_keys[h]
       /\ api_keys[h][KeyIdOf(n)].is_active
       /\ ~(Truthy(api_keys[h][KeyIdOf(n)].expires_at)
               /\ api_keys[h][KeyIdOf(n)].expires_at[1] < t)

\* the step is a validate_api_key call on the manager's registry
ValidateCalled == reg_ops' = reg_ops + 1 /\ ret'.op = "validate_api_key"

\* C13: validate_api_key(s) returns a record exactly when s is the raw key
\* returned by an earlier create_api_key whose record is still stored,
\* active and not past expires_at; otherwise it returns None and changes
\* nothing; on success it changes only that record's last_used.
C13_ValidateExactlyLiveKeys ==
    [][ValidateCalled =>
          /\ ret'.found = IssuedAndLive("manager", ret'.api_key, now)
          /\ key_hashes' = key_hashes
          /\ ~ret'.found => api_keys' = api_keys
          /\ ret'.found =>
                api_keys' = [api_keys EXCEPT
                                !["manager"][KeyIdOf(ret'.api_key[2])].last_used =
                                   <<now>>]]_vars

\* C13 witness: a validate call has just succeeded at the very instant the
\* key expires (expires_at = now), on a key created earlier.
C13_Witness ==
    /\ ret.op = "validate_api_key"
    /\ ret.found
    /\ LET data == api_keys["manager"][KeyIdOf(ret.api_key[2])]
       IN /\ data.expires_at = <<now>>
          /\ data.last_used = <<now>>
          /\ data.created_at[1] < now

\* The values of the key's kind (not names, numbers, times or flags) that a
\* record holds.
KeysHeldBy(data) == {data.key_id}

\* The values of the key's kind in what the last call returned, for the calls
\* that return records: validate_api_key returns the stored record.
KeysReturned ==
    IF ret.op = "list_api_keys"
    THEN UNION {KeysHeldBy(ret.value[i]) : i \in 1..Len(ret.value)}
    ELSE IF ret.op = "get_api_key"
    THEN UNION {KeysHeldBy(ret.value[i]) : i \in 1..Len(ret.value)}
    ELSE IF ret.op = "validate_api_key" /\ ret.found
    THEN KeysHeldBy(api_keys["manager"][KeyIdOf(ret.api_key[2])])
    ELSE {}

\* C14: no map key and no record field of a registry is a raw API key (the
\* index is keyed by the digest), and no call but create_api_key returns one.
C14_RawKeyNeverStored ==
    /\ \A h \in Handlers :
          /\ DOMAIN key_hashes[h] \cap RawKeys = {}
          /\ DOMAIN api_keys[h] \cap RawKeys = {}
          /\ \A x \in DOMAIN key_hashes[h] : key_hashes[h][x] \notin RawKeys
          /\ \A k \in DOMAIN api_keys[h] : KeysHeldBy(api_keys[h][k]) \cap RawKeys = {}
    /\ KeysReturned \cap RawKeys = {}
    /\ ret.op \in {"update_api_key", "revoke_api_key"} => ret.value \in BOOLEAN

\* C14 witness: list_api_keys has just returned the records of a registry
\* that holds two keys.
C14_Witness ==
    /\ ret.op = "list_api_keys"
    /\ Len(ret.value) = 2
    /\ Cardinality(DOMAIN key_hashes["manager"]) = 2

(***************************************************************************)
(* SpecAuth: the hybrid handler's authenticate_request and the JWT         *)
(* handler's verify_token called directly, on tokens the handler issued    *)
(* and on tokens made elsewhere.                                           *)
(***************************************************************************)
MaxAuthTime == 90    \* the clock stops here
MaxAuthTokens == 1   \* tokens issued in one behaviour
MaxAuthKeys == 1     \* API keys created in one behaviour

MsPerSecond == 1000

AuthConfigs ==
    {[c EXCEPT !.auth_type = "hybrid", !.prefer_jwt = p] :
        p \in BOOLEAN,
        c \in {x \in DispatchConfigs : BaseAuth(x) /\ BasePaths(x) /\ BaseChecks(x)}}

\* Tokens signed with the service's key by another party: any issuer, any
\* type, expiring at 60 s or practically never.
CraftedTokens ==
    {[create_access_token(config, "u1", "alice", <<>>, <<>>, NoClaims, 0) EXCEPT
         !.iss = i, !.type = ty, !.exp = e] :
        i \in {Issuer, "other-service"},
        ty \in {"access", "refresh", "admin"},
        e \in {60, 1000000}}

AuthRequests ==
    {[NoRequest EXCEPT !.path = <<"api", "v1", "users">>, !.client = "10.0.0.1",
                       !.api_key_header = k, !.token = tk] :
        k \in {NoKey} \cup {RawKeyOf(n) : n \in 1..(MaxAuthKeys + 1)},
        tk \in {NoToken, ForgedToken} \cup tokens}

InitAuth ==
    /\ now = 0
    /\ config \in AuthConfigs
    /\ rate_limits = <<>>
    /\ rl_log = [c \in ClientIds |-> <<>>]
    /\ last_checked = ""
    /\ RegIdle
    /\ mgr = NewSecurityManager(config)
    /\ mw = NewSecurityMiddleware(config)
    /\ tokens = {}
    /\ tasks = [t \in Tasks |-> IdleTask]
    /\ running = 0
    /\ serial_rl = <<>>
    /\ received = 0

\* what no direct call on a handler touches
AuthFrame ==
    UNCHANGED <<config, subsec, issued_at, threads, rlVars, revoked, ever_revoked, reg_ops,
                mgr, mw, tasks, running, serial_rl, received>>

\* jwt_handler.create_access_token
AuthIssueToken ==
    /\ Cardinality(tokens) < MaxAuthTokens
    /\ tokens' = tokens \cup
                    {create_access_token(config, "u1", "alice", <<>>, <<>>, NoClaims, now)}
    /\ AuthFrame
    /\ UNCHANGED <<now, api_keys, key_hashes, next_key, ret>>

\* api_key_handler.create_api_key on the hybrid handler's registry
AuthCreateKey ==
    /\ next_key < MaxAuthKeys
    /\ LET r == create_api_key(Registry("manager"), next_key + 1, "svc-a", "u1",
                               <<>>, <<>>, <<>>, now)
       IN SetRegistry("manager", r.reg)
    /\ next_key' = next_key + 1
    /\ AuthFrame
    /\ UNCHANGED <<now, tokens, ret>>

\* HybridHandler.authenticate_request(request); ret also records what each
\* strategy answers to the same request at the same instant
AuthHybrid ==
    /\ \E req \in AuthRequests :
          LET r == hybrid_authenticate_request(config, Registry("manager"), req, now)
              j == jwt_authenticate_request(config, req, now)
              a == api_key_authenticate_request(Registry("manager"), req, now)
          IN /\ SetRegistry("manager", r.reg)
             /\ ret' = [op |-> "authenticate_request", req |-> req, t |-> now,
                        raised |-> r.raised, detail |-> r.detail,
                        auth_type |-> IF r.raised THEN "none" ELSE r.ctx.auth_type,
                        jwt_error |-> j.detail, api_key_error |-> a.detail]
    /\ AuthFrame
    /\ UNCHANGED <<now, next_key, tokens>>

\* JWTHandler.verify_token(token)
AuthVerify ==
    /\ \E token \in tokens \cup CraftedTokens \cup {ForgedToken} :
          LET v == verify_token(config, token, now)
          IN ret' = [op |-> "verify_token", token |-> token, t |-> now,
                     ms |-> now * MsPerSecond + subsec,
                     ok |-> v.ok, detail |-> v.detail]
    /\ AuthFrame
    /\ UNCHANGED <<now, api_keys, key_hashes, next_key, tokens>>

TickAuth ==
    /\ \E d \in RegTimeSteps :
          /\ now + d <= MaxAuthTime
          /\ now' = now + d
    /\ UNCHANGED <<config, subsec, issued_at, threads, rlVars, regVars, dispVars>>

NextAuth ==
    \/ AuthIssueToken
    \/ AuthCreateKey
    \/ AuthHybrid
    \/ TickAuth

SpecAuth == InitAuth /\ [][NextAuth]_vars

StrategyErrors ==
    [jwt |-> {"Missing or invalid authorization header",
              "Invalid token: Signature verification failed", "Token has expired",
              "Invalid token issuer", "Invalid token type"},
     api_key |-> {"Missing API key", "Invalid or expired API key"}]

FirstTried == IF config.prefer_jwt THEN "jwt" ELSE "api_key"

\* C15: the hybrid handler raises exactly when both strategies fail on the
\* request, and the error it raises is then the error of the strategy tried
\* first (JWT when prefer_jwt, API key otherwise), never the other one's.
C15_HybridSurfacesFirstTriedError ==
    ret.op = "authenticate_request" =>
        /\ ret.raised = (ret.jwt_error # "" /\ ret.api_key_error # "")
        /\ ret.raised =>
              /\ ret.detail = (IF config.prefer_jwt THEN ret.jwt_error
                                                    ELSE ret.api_key_error)
              /\ ret.detail \in StrategyErrors[FirstTried]
              /\ ret.detail \notin StrategyErrors[IF config.prefer_jwt THEN "api_key"
                                                                       ELSE "jwt"]

\* C15 witness: with the API key preferred, an unknown key and an expired
\* token of the service were both refused and the hybrid handler raised.
C15_Witness ==
    /\ ret.op = "authenticate_request"
    /\ ~config.prefer_jwt
    /\ ret.raised
    /\ ret.req.token \in tokens
    /\ ret.jwt_error = "Token has expired"
    /\ ret.api_key_error = "Invalid or expired API key"

\* C16: when the strategy rejects a request to a protected path, the error
\* description of the dispatcher's response is the detail of the error the
\* strategy raised for that request.
C16_StrategyErrorPreserved ==
    [][\A t \in Tasks :
          (/\ tasks[t].pc = "authenticate"
           /\ tasks'[t].pc = "done"
           /\ mw.auth_handler # None)
          => LET a == authenticate_request(mw.auth_handler, config,
                                           Registry("middleware"), tasks[t].req, now)
             IN a.raised => /\ tasks'[t].status = 401
                            /\ tasks'[t].error_description = a.detail]_vars

(***************************************************************************)
(* SpecErr: one dispatch at a time, with the things that can go wrong      *)
(* around it: a downstream handler that raises, a custom check that        *)
(* raises, a request without a client address, a security context already  *)
(* on request.state.                                                       *)
(***************************************************************************)
ErrConfigs ==
    {[c EXCEPT !.custom_auth_check = k, !.rate_limit_enabled = r] :
        k \in {"none", "accept", "reject", "raises"},
        r \in BOOLEAN,
        c \in {x \in DispatchConfigs : BaseAuth(x) /\ BasePaths(x) /\ BaseChecks(x)}}

ErrRequests ==
    {[NoRequest EXCEPT !.path = p, !.client = cl, !.token = tk,
                       !.state_user_id = su, !.downstream = dn] :
        p \in {<<"health">>, <<"api", "v1", "users">>},
        cl \in {None, "10.0.0.1"},
        tk \in {NoToken} \cup tokens,
        su \in {Absent, None, "u1"},
        dn \in {"ok", "raises"}}

InitErr ==
    /\ now = 0
    /\ config \in ErrConfigs
    /\ rate_limits = <<>>
    /\ rl_log = [c \in ClientIds |-> <<>>]
    /\ last_checked = ""
    /\ RegIdle
    /\ mgr = NewSecurityManager(config)
    /\ mw = NewSecurityMiddleware(config)
    /\ tokens = {}
    /\ tasks = [t \in Tasks |-> IdleTask]
    /\ running = 0
    /\ serial_rl = <<>>
    /\ received = 0

ErrReceive == ReceiveFrom(1, ErrRequests)

NextErr ==
    \/ ErrReceive
    \/ Dispatch(1)
    \/ RlRefill(1)
    \/ RlPrune(1)
    \/ RlDecide(1)
    \/ RlUpdate(1)
    \/ CustomAuthCheck(1)
    \/ Authenticate(1)
    \/ CallNext(1)
    \/ MgrCreateJwtToken
    \/ TickDispatch

SpecErr == InitErr /\ [][NextErr]_vars

Count(steps, x) == Cardinality({i \in 1..Len(steps) : steps[i] = x})

DispatcherErrors == {401, 403, 429, 500}

\* C17: a dispatch that ended in an error response built by the dispatcher
\* (401, 403, 429, 500) never invoked the downstream handler; call_next is
\* invoked at most once per request, and a finished dispatch has one outcome,
\* the downstream response or an error response.
C17_ErrorResponseMeansNotForwarded ==
    \A t \in Tasks :
        /\ Count(tasks[t].steps, "call_next") <= 1
        /\ tasks[t].pc = "done" =>
              /\ tasks[t].status \in DispatcherErrors
                    => ~Has(tasks[t].steps, "call_next")
              /\ tasks[t].status = 200 => tasks[t].error = ""

\* an exception was raised inside dispatch on a protected request: in client
\* identification, or by the custom check
RaisedInDispatch(task) ==
    /\ Has(task.steps, "protected")
    /\ \/ get_client_identifier(task.req).raised
       \/ Has(task.steps, "custom_auth_check") /\ mw.custom_auth_check = "raises"

\* C18: an exception raised inside dispatch on a protected request becomes
\* the 500 "internal_error" response; no dispatch of a protected request ends
\* with the exception leaving the middleware.
C18_ExceptionsBecome500 ==
    \A t \in Tasks :
        (tasks[t].pc = "done" /\ Has(tasks[t].steps, "protected")) =>
            /\ tasks[t].status # 0
            /\ RaisedInDispatch(tasks[t]) =>
                  tasks[t].status = 500 /\ tasks[t].error = "internal_error"

(***************************************************************************)
(* SpecJwt: the JWT handler alone, on a clock read to the millisecond.     *)
(* datetime.utcnow() has a fractional part; jwt.encode writes the exp and  *)
(* iat datetimes into the token as whole seconds, and jwt.decode compares  *)
(* exp with the current time.                                              *)
(***************************************************************************)
JwtStartMs == {0, 500}                  \* the fraction of a second the clock starts at
JwtTimeStepsMs == {59500, 60000, 60500}

\* the current instant in milliseconds
Instant == now * MsPerSecond + subsec

\* calendar.timegm(dt.utctimetuple()), as jwt.encode applies it to exp and iat
timegm(ms) == ms \div MsPerSecond

InitJwt ==
    /\ now = 0
    /\ subsec \in JwtStartMs
    /\ issued_at = {}
    /\ config \in AuthConfigs
    /\ rate_limits = <<>>
    /\ rl_log = [c \in ClientIds |-> <<>>]
    /\ last_checked = ""
    /\ threads = [th \in ThreadIds |-> IdleThread]
    /\ api_keys = [h \in Handlers |-> <<>>]
    /\ key_hashes = [h \in Handlers |-> <<>>]
    /\ next_key = 0
    /\ ret = [op |-> "none"]
    /\ revoked = {}
    /\ ever_revoked = {}
    /\ reg_ops = 0
    /\ mgr = NewSecurityManager(config)
    /\ mw = NewSecurityMiddleware(config)
    /\ tokens = {}
    /\ tasks = [t \in Tasks |-> IdleTask]
    /\ running = 0
    /\ serial_rl = <<>>
    /\ received = 0

\* jwt_handler.create_access_token at the current instant
JwtIssueToken ==
    /\ Cardinality(issued_at) < MaxAuthTokens
    /\ LET token == create_access_token(config, "u1", "alice", <<>>, <<>>, NoClaims,
                                        timegm(Instant))
       IN /\ tokens' = tokens \cup {token}
          /\ issued_at' = issued_at \cup {[token |-> token, ms |-> Instant]}
    /\ UNCHANGED <<now, subsec, config, threads, rlVars, regVars,
                   mgr, mw, tasks, running, serial_rl, received>>

TickJwt ==
    /\ \E d \in JwtTimeStepsMs :
          /\ (Instant + d) \div MsPerSecond <= MaxAuthTime
          /\ now' = (Instant + d) \div MsPerSecond
          /\ subsec' = (Instant + d) % MsPerSecond
    /\ UNCHANGED <<config, issued_at, threads, rlVars, regVars, dispVars>>

NextJwt ==
    \/ JwtIssueToken
    \/ AuthVerify
    \/ TickJwt

SpecJwt == InitJwt /\ [][NextJwt]_vars

\* C19: verify_token reports the first failing check in the order signature,
\* issuer, token type, expiry: a correctly signed token with a wrong issuer
\* (or an unsupported type) fails with the issuer (or type) error even when it
\* has expired as well.
C19_ChecksInSpecifiedOrder ==
    ret.op = "verify_token" =>
        ret.detail =
            (IF ret.token.key # config.jwt_secret_key
             THEN "Invalid token: Signature verification failed"
             ELSE IF ret.token.iss # Issuer THEN "Invalid token issuer"
             ELSE IF ret.token.type \notin {"access", "refresh"} THEN "Invalid token type"
             ELSE IF ret.token.exp <= ret.t THEN "Token has expired"
             ELSE "")

TTLMs == config.jwt_access_token_expire_minutes * SecondsPerMinute * MsPerSecond

\* C20: a token issued at instant i with time to live TTL verifies at every
\* instant before i + TTL, and is rejected with "Token has expired" at
\* i + TTL and at every instant after it.
C20_AcceptedUntilIssuePlusTTL ==
    ret.op = "verify_token" =>
        \A i \in issued_at :
            i.token = ret.token =>
                /\ ret.ok <=> ret.ms < i.ms + TTLMs
                /\ ~ret.ok => ret.detail = "Token has expired"

(***************************************************************************)
(* SpecTok: the JWT handler issuing access and refresh tokens for any      *)
(* claims, verifying and refreshing them, on a clock of whole seconds.     *)
(***************************************************************************)
MaxTokIssued == 1     \* create_access_token / create_refresh_token calls in one behaviour

\* the instants at which the handler is called: issue, just before and at the
\* access token's expiry, and the refresh token's expiry
TokInstants == {0, 59, 60, SecondsPerDay}

TokUserIds == {"u1", ""}
TokRoles == {<<>>, <<"admin">>}
TokPermissions == {<<>>, <<"read">>}

\* additional_claims: none, a claim of its own, or a claim named like one the
\* handler sets
TokAdditionalClaims ==
    {NoClaims, [email |-> "a@example.org"], [user_id |-> "mallory"],
     [iss |-> "other-service"]}

TokConfigs == {c \in AuthConfigs : c.prefer_jwt}

InitTok ==
    /\ now = 0
    /\ config \in TokConfigs
    /\ rate_limits = <<>>
    /\ rl_log = [c \in ClientIds |-> <<>>]
    /\ last_checked = ""
    /\ RegIdle
    /\ mgr = NewSecurityManager(config)
    /\ mw = NewSecurityMiddleware(config)
    /\ tokens = {}
    /\ tasks = [t \in Tasks |-> IdleTask]
    /\ running = 0
    /\ serial_rl = <<>>
    /\ received = 0

TokFrame ==
    UNCHANGED <<now, subsec, config, threads, rlVars, api_keys, key_hashes, next_key,
                revoked, ever_revoked, reg_ops, mgr, mw, tasks, running, serial_rl,
                received>>

\* create_access_token(user_id, username, roles, permissions, additional_claims)
TokIssueAccess ==
    /\ Cardinality(issued_at) < MaxTokIssued
    /\ \E user_id \in TokUserIds, roles \in TokRoles, permissions \in TokPermissions,
          additional_claims \in TokAdditionalClaims :
          LET token == create_access_token(config, user_id, "alice", roles,
                                           permissions, additional_claims, now)
          IN /\ tokens' = tokens \cup {token}
             /\ issued_at' = issued_at \cup
                    {[token |-> token, t |-> now, type |-> "access",
                      user_id |-> user_id, username |-> "alice", roles |-> roles,
                      permissions |-> permissions]}
    /\ TokFrame
    /\ UNCHANGED ret

\* create_refresh_token(user_id, username)
TokIssueRefresh ==
    /\ Cardinality(issued_at) < MaxTokIssued
    /\ \E user_id \in TokUserIds :
          LET token == create_refresh_token(config, user_id, "alice", now)
          IN /\ tokens' = tokens \cup {token}
             /\ issued_at' = issued_at \cup
                    {[token |-> token, t |-> now, type |-> "refresh",
                      user_id |-> user_id, username |-> "alice", roles |-> <<>>,
                      permissions |-> <<>>]}
    /\ TokFrame
    /\ UNCHANGED ret

\* verify_token(token)
TokVerify ==
    /\ \E token \in tokens \cup {ForgedToken} :
          LET v == verify_token(config, token, now)
          IN ret' = [op |-> "verify_token", token |-> token, t |-> now,
                     ok |-> v.ok, detail |-> v.detail,
                     data |-> IF v.ok THEN v.data ELSE NoClaims]
    /\ TokFrame
    /\ UNCHANGED <<tokens, issued_at>>

\* refresh_access_token(refresh_token)
TokRefresh ==
    /\ \E refresh_token \in tokens \cup {ForgedToken} :
          LET r == refresh_access_token(config, refresh_token, now)
          IN /\ tokens' = IF r.raised THEN tokens ELSE tokens \cup {r.token}
             /\ ret' = [op |-> "refresh_access_token",
                        refresh_token |-> refresh_token, t |-> now,
                        raised |-> r.raised, status |-> r.status,
                        detail |-> r.detail, token |-> r.token]
    /\ TokFrame
    /\ UNCHANGED issued_at

TickTok ==
    /\ \E t \in TokInstants :
          /\ t > now
          /\ now' = t
    /\ UNCHANGED <<subsec, issued_at, config, threads, rlVars, regVars, dispVars>>

NextTok ==
    \/ TokIssueAccess
    \/ TokIssueRefresh
    \/ TokVerify
    \/ TokRefresh
    \/ TickTok

SpecTok == InitTok /\ [][NextTok]_vars

\* the claim of this name in a token data or payload, None if it has none
ClaimOf(data, claim) == IF claim \in DOMAIN data THEN data[claim] ELSE None

AccessTTL == config.jwt_access_token_expire_minutes * SecondsPerMinute

\* C21: an access token issued for any user id, username, roles, permissions
\* and additional claims verifies before its expiry, and the token data
\* returned carries the subject / user id, username, roles, permissions,
\* issuer and token type it was issued with.
C21_VerifyReturnsIssuedClaims ==
    ret.op = "verify_token" =>
        \A i \in issued_at :
            (i.token = ret.token /\ i.type = "access" /\ ret.t < i.t + AccessTTL) =>
                /\ ret.ok
                /\ ret.data.user_id = i.user_id
                /\ ret.data.sub = i.user_id
                /\ ret.data.username = i.username
                /\ ret.data.roles = i.roles
                /\ ret.data.permissions = i.permissions
                /\ ret.data.iss = Issuer
                /\ ClaimOf(ret.data, "type") = i.type

\* a refresh token the handler issued, not yet expired at ret.t
ValidRefreshToken(r) ==
    \E i \in issued_at :
        /\ i.token = r
        /\ i.type = "refresh"
        /\ ret.t < i.t + config.jwt_refresh_token_expire_days * SecondsPerDay

\* C22: refresh_access_token on a valid refresh token returns a new access
\* token with the user id, username, roles and permissions of the refresh
\* token's verified data, and the refresh token still verifies afterwards;
\* on any other token it raises 401 and issues nothing.
C22_RefreshReissuesAndKeepsToken ==
    ret.op = "refresh_access_token" =>
        IF ValidRefreshToken(ret.refresh_token)
        THEN /\ ~ret.raised
             /\ ret.token.type = "access"
             /\ ret.token.user_id = ret.refresh_token.user_id
             /\ ret.token.username = ret.refresh_token.username
             /\ ret.token.roles = ret.refresh_token.roles
             /\ ret.token.permissions = ret.refresh_token.permissions
             /\ verify_token(config, ret.refresh_token, ret.t).ok
        ELSE /\ ret.raised
             /\ ret.status = 401
             /\ ret.token = NoToken

(***************************************************************************)
(* SpecFactory: AuthFactory.create_handler called on any configuration.    *)
(***************************************************************************)
\* every configuration of AllConfigs, with the signing secret missing, empty
\* or set
FactoryConfigs ==
    {[c EXCEPT !.jwt_secret_key = k] : c \in AllConfigs, k \in {None, "", "s3cret"}}

InitFactory ==
    /\ now = 0
    /\ config \in FactoryConfigs
    /\ rate_limits = <<>>
    /\ rl_log = [c \in ClientIds |-> <<>>]
    /\ last_checked = ""
    /\ RegIdle
    /\ DispatchIdle

\* AuthFactory.create_handler(config)
FactoryCreate ==
    /\ LET h == create_handler(config)
       IN ret' = [op |-> "create_handler", raised |-> h.raised, handler |-> h.handler]
    /\ UNCHANGED <<now, subsec, issued_at, config, threads, rlVars, api_keys, key_hashes,
                   next_key, revoked, ever_revoked, reg_ops, dispVars>>

NextFactory == FactoryCreate

SpecFactory == InitFactory /\ [][NextFactory]_vars

\* the handler class create_handler builds for each supported auth type
HandlerClass ==
    [jwt |-> "jwt", api_key |-> "api_key", hybrid |-> "hybrid"]

\* C23: create_handler returns the JWT handler for auth_type jwt, the API-key
\* handler for api_key and the hybrid handler for hybrid; it raises, returning
\* no handler, exactly when the auth type is not a supported value or a
\* JWT-capable type (jwt, hybrid) has no signing secret.
C23_FactoryBuildsOrRaises ==
    ret.op = "create_handler" =>
        LET unsupported == config.auth_type \notin AuthTypes
            no_secret == /\ config.auth_type \in {"jwt", "hybrid"}
                         /\ config.jwt_secret_key \in {None, ""}
        IN /\ ret.raised <=> (unsupported \/ no_secret)
           /\ ret.raised => ret.handler = None
           /\ (~ret.raised /\ config.auth_type \in DOMAIN HandlerClass) =>
                 ret.handler = HandlerClass[config.auth_type]
           /\ (~ret.raised /\ config.auth_type = "none") => ret.handler = None

\* C23 witness: the factory has refused a hybrid configuration whose signing
\* secret is the empty string.
C23_Witness ==
    /\ ret.op = "create_handler"
    /\ ret.raised
    /\ config.auth_type = "hybrid"
    /\ config.jwt_secret_key = ""

(***************************************************************************)
(* The registry's maintenance calls: cleanup, revoke, update.              *)
(***************************************************************************)
\* the registry of the manager's handler after the step
RegistryAfter ==
    [api_keys |-> api_keys'["manager"], key_hashes |-> key_hashes'["manager"]]

\* the step is a cleanup_expired_keys call on the manager's registry
CleanupCalled == reg_ops' = reg_ops + 1 /\ ret'.op = "cleanup_expired_keys"

\* the key ids whose expires_at is before t
PastExpiry(h, t) ==
    {k \in DOMAIN api_keys[h] :
        api_keys[h][k].expires_at # <<>> /\ api_keys[h][k].expires_at[1] < t}

\* C24: cleanup_expired_keys removes exactly the records whose expires_at is
\* before the current time and the hash entry of each, returns how many it
\* removed, leaves every other record and hash entry as it was, and the raw
\* key of a removed record no longer validates afterwards.
C24_CleanupRemovesExactlyExpired ==
    [][CleanupCalled =>
          LET gone == PastExpiry("manager", now)
          IN /\ DOMAIN api_keys'["manager"] = DOMAIN api_keys["manager"] \ gone
             /\ \A k \in DOMAIN api_keys'["manager"] :
                   api_keys'["manager"][k] = api_keys["manager"][k]
             /\ DOMAIN key_hashes'["manager"] =
                   {x \in DOMAIN key_hashes["manager"] :
                       key_hashes["manager"][x] \notin gone}
             /\ \A x \in DOMAIN key_hashes'["manager"] :
                   key_hashes'["manager"][x] = key_hashes["manager"][x]
             /\ ret'.value = Cardinality(gone)
             /\ \A n \in 1..MaxKeys :
                   KeyIdOf(n) \in gone =>
                       ~validate_api_key(RegistryAfter, RawKeyOf(n), now).found]_vars

\* C24 witness: a cleanup has just removed one of two keys; the key left is
\* a revoked one whose expiry is not yet past, with its hash entry.
C24_Witness ==
    /\ ret.op = "cleanup_expired_keys"
    /\ ret.value = 1
    /\ next_key = 2
    /\ Cardinality(DOMAIN key_hashes["manager"]) = 1
    /\ \E k \in DOMAIN api_keys["manager"] :
          /\ ~api_keys["manager"][k].is_active
          /\ api_keys["manager"][k].expires_at = <<now>>

\* the step is a revoke_api_key call on the manager's registry
RevokeCalled == reg_ops' = reg_ops + 1 /\ ret'.op = "revoke_api_key"

\* C25: revoke_api_key returns true exactly when the key id has a record; it
\* sets is_active to false and keeps the record and the hash entry; a second
\* call leaves the registry as the first left it; a call for an unknown key
\* id changes nothing.
C25_RevokeIdempotent ==
    [][RevokeCalled =>
          LET k == ret'.key_id
              known == k \in DOMAIN api_keys["manager"]
          IN /\ ret'.value = known
             /\ key_hashes' = key_hashes
             /\ ~known => api_keys' = api_keys
             /\ known => api_keys' = [api_keys EXCEPT !["manager"][k].is_active = FALSE]
             /\ (known /\ ~api_keys["manager"][k].is_active) => api_keys' = api_keys
             /\ revoke_api_key(RegistryAfter, k).reg = RegistryAfter
             /\ revoke_api_key(RegistryAfter, k).value = ret'.value]_vars

\* C25 witness: a key that was already revoked has just been revoked again;
\* the call returned true and the record and its hash entry are still there.
C25_Witness ==
    /\ ret.op = "revoke_api_key"
    /\ ret.value
    /\ ~ret.was_active
    /\ ret.key_id \in ever_revoked
    /\ ~api_keys["manager"][ret.key_id].is_active
    /\ \E x \in DOMAIN key_hashes["manager"] : key_hashes["manager"][x] = ret.key_id

\* the step is an update_api_key call on the manager's registry
UpdateCalled == reg_ops' = reg_ops + 1 /\ ret'.op = "update_api_key"

\* the value of a field after an update: the value supplied when one was
\* given, the old value otherwise
Merged(old, given, value) == IF given THEN value ELSE old

\* C26: update_api_key changes only the fields the caller supplied and
\* leaves every other field of the record, every other record and the hash
\* index as they were; for an unknown key id it returns false and changes
\* nothing.
C26_UpdateMergesOnlySupplied ==
    [][UpdateCalled =>
          LET k == ret'.key_id
              a == ret'.args
              known == k \in DOMAIN api_keys["manager"]
          IN /\ ret'.value = known
             /\ key_hashes' = key_hashes
             /\ ~known => api_keys' = api_keys
             /\ known =>
                   LET old == api_keys["manager"][k]
                       new == api_keys'["manager"][k]
                   IN /\ DOMAIN api_keys'["manager"] = DOMAIN api_keys["manager"]
                      /\ \A j \in DOMAIN api_keys["manager"] \ {k} :
                            api_keys'["manager"][j] = api_keys["manager"][j]
                      /\ new.key_id = old.key_id
                      /\ new.user_id = old.user_id
                      /\ new.created_at = old.created_at
                      /\ new.last_used = old.last_used
                      /\ new.name = Merged(old.name, a.name # None, a.name)
                      /\ new.permissions =
                            IF a.permissions # <<>> THEN a.permissions[1]
                            ELSE old.permissions
                      /\ new.rate_limit = Merged(old.rate_limit,
                                                 a.rate_limit # <<>>, a.rate_limit)
                      /\ new.expires_at = Merged(old.expires_at,
                                                 a.expires_at # <<>>, a.expires_at)
                      /\ new.is_active =
                            IF a.is_active # <<>> THEN a.is_active[1]
                            ELSE old.is_active]_vars

\* C26 witness: an update given only a new name has just renamed a revoked
\* key; its permissions are those it was created with and it is still
\* revoked.
C26_Witness ==
    /\ ret.op = "update_api_key"
    /\ ret.value
    /\ ret.args.name = "svc-b"
    /\ GivenCount(ret.args) = 1
    /\ api_keys["manager"][ret.key_id].name = "svc-b"
    /\ api_keys["manager"][ret.key_id].permissions = <<"read">>
    /\ ~api_keys["manager"][ret.key_id].is_active

(***************************************************************************)
(* The client identifier and the response headers of dispatch.             *)
(***************************************************************************)
\* the identifier the precedence rule gives a request: the user id of a
\* security context already on request.state, else the remote address, else
\* "unknown"
IdentifierByPrecedence(req) ==
    IF req.state_user_id \notin {Absent, None} THEN req.state_user_id
    ELSE IF req.client # None THEN req.client
    ELSE "unknown"

\* C27: the rate-limit client identifier of a request is the user id of the
\* security context already in request state, otherwise the remote address,
\* otherwise "unknown"; get_client_identifier returns one of these for every
\* request, those without a client address included, and never fails.
C27_ClientIdentifierByPrecedence ==
    \A t \in Tasks :
        Has(tasks[t].steps, "protected") =>
            /\ ~get_client_identifier(tasks[t].req).raised
            /\ tasks[t].error # "AttributeError"
            /\ tasks[t].client_id = IdentifierByPrecedence(tasks[t].req)

\* the strategy has authenticated and authorized the request of this task
AuthenticatedByStrategy(task) ==
    /\ Has(task.steps, "authenticate")
    /\ task.ctx.is_authenticated
    /\ task.ctx.is_authorized

\* C28: on successful authentication the security context is stored in
\* request.state before the downstream handler is invoked, and the response
\* returned to the client carries X-Security-Context: authenticated and
\* X-Auth-Type equal to the auth type of the strategy that authenticated the
\* request (jwt or api_key); on every other path neither header is added.
C28_SuccessStoresContextAndAddsHeaders ==
    \A t \in Tasks :
        LET task == tasks[t]
        IN /\ (AuthenticatedByStrategy(task) /\ Has(task.steps, "call_next")) =>
                  task.state_ctx
           /\ (AuthenticatedByStrategy(task) /\ task.pc = "done") =>
                  /\ task.x_security_context = "authenticated"
                  /\ task.x_auth_type = task.ctx.auth_type
                  /\ task.x_auth_type \in {"jwt", "api_key"}
           /\ ~AuthenticatedByStrategy(task) =>
                  /\ task.x_security_context = ""
                  /\ task.x_auth_type = ""

(***************************************************************************)
(* SpecKey: APIKeyHandler.authenticate_request called on requests that     *)
(* carry a key in the header, in the query string, in both or in neither.  *)
(***************************************************************************)
\* what a request carries in the configured header or query parameter:
\* nothing, the empty string, or a key the handler has issued
CarriedKeys == {NoKey, EmptyString} \cup {RawKeyOf(n) : n \in 1..next_key}

KeyRequests ==
    {[NoRequest EXCEPT !.path = <<"api", "v1", "users">>, !.client = "10.0.0.1",
                       !.api_key_header = hd, !.api_key_query = q] :
        hd \in CarriedKeys, q \in CarriedKeys}

InitKey == InitReg

\* APIKeyHandler.authenticate_request(request)
KeyAuthenticate(h) ==
    /\ RegStep
    /\ \E req \in KeyRequests :
          LET r == api_key_authenticate_request(Registry(h), req, now)
          IN /\ SetRegistry(h, r.reg)
             /\ ret' = [op |-> "authenticate_request", req |-> req,
                        raised |-> r.raised, detail |-> r.detail]
    /\ UNCHANGED <<next_key, revoked, ever_revoked>>

NextKey ==
    \/ RegCreate("manager")
    \/ RegRevoke("manager")
    \/ KeyAuthenticate("manager")

SpecKey == InitKey /\ [][NextKey]_vars

\* a header or query-parameter value that is present and not empty
Carries(value) == value \notin {NoKey, EmptyString}

\* the step is an authenticate_request call on the manager's handler
KeyAuthenticateCalled ==
    reg_ops' = reg_ops + 1 /\ ret'.op = "authenticate_request"

\* C29: API-key extraction reads the configured header first and the query
\* parameter only when the header is absent or empty: when both carry a
\* value only the header value is validated, and the query value is never a
\* fallback for a header value that does not validate.
C29_HeaderBeforeQuery ==
    [][KeyAuthenticateCalled =>
          LET hd == ret'.req.api_key_header
              q == ret'.req.api_key_query
              Accepts(key) ==
                  /\ ~ret'.raised
                  /\ IssuedAndLive("manager", key, now)
                  /\ api_keys' = [api_keys EXCEPT
                                     !["manager"][KeyIdOf(key[2])].last_used = <<now>>]
              Rejects(detail) ==
                  /\ ret'.raised
                  /\ ret'.detail = detail
                  /\ api_keys' = api_keys
          IN /\ key_hashes' = key_hashes
             /\ Carries(hd) =>
                   IF IssuedAndLive("manager", hd, now)
                   THEN Accepts(hd) ELSE Rejects("Invalid or expired API key")
             /\ (~Carries(hd) /\ Carries(q)) =>
                   IF IssuedAndLive("manager", q, now)
                   THEN Accepts(q) ELSE Rejects("Invalid or expired API key")
             /\ (~Carries(hd) /\ ~Carries(q)) => Rejects("Missing API key")]_vars

\* C29 witness: a request whose header carries a revoked key and whose query
\* parameter carries a live key has just been refused, and the live key's
\* record was not touched.
C29_Witness ==
    /\ ret.op = "authenticate_request"
    /\ ret.raised
    /\ Carries(ret.req.api_key_header)
    /\ KeyIdOf(ret.req.api_key_header[2]) \in revoked
    /\ IssuedAndLive("manager", ret.req.api_key_query, now)
    /\ api_keys["manager"][KeyIdOf(ret.req.api_key_query[2])].last_used = <<>>

(***************************************************************************)
(* SpecMgr: the SecurityManager's token and key operations, called on a    *)
(* manager built from any configuration and reconfigured by update_config. *)
(* A handler reads its settings when it is built; update_config here       *)
(* changes only "enabled" and "auth_type", so the settings a kept handler  *)
(* was built with are those of the current configuration.                  *)
(***************************************************************************)
MaxMgrOps == 3       \* calls on the manager in one behaviour

MgrConfigs == {c \in AllConfigs : BasePaths(c) /\ BaseChecks(c)}

\* the dictionaries passed to update_config
UpdateConfigs ==
    {[enabled |-> FALSE], [enabled |-> TRUE],
     [auth_type |-> "api_key"], [auth_type |-> "jwt"]}

\* security/__init__.py lines 161-174: <<>> is None
manager_create_jwt_token(m, cfg, user_id, username, t) ==
    IF m.auth_handler = None THEN <<>>
    ELSE IF m.auth_handler \in {"jwt", "hybrid"}
    THEN <<create_access_token(cfg, user_id, username, <<>>, <<>>, NoClaims, t)>>
    ELSE <<>>

\* security/__init__.py lines 187-193
manager_create_refresh_token(m, cfg, user_id, username, t) ==
    IF m.auth_handler = None THEN <<>>
    ELSE IF m.auth_handler \in {"jwt", "hybrid"}
    THEN <<create_refresh_token(cfg, user_id, username, t)>>
    ELSE <<>>

manager_create_api_key_on_any_handler(m, reg, n, name, user_id, t) ==
    IF m.auth_handler = None
    THEN [reg |-> reg, value |-> <<>>]
    ELSE LET r == create_api_key(reg, n, name, user_id, <<>>, <<>>, <<>>, t)
         IN [reg |-> r.reg, value |-> <<r.value>>]

\* security/__init__.py lines 216-231
manager_create_api_key(m, reg, n, name, user_id, t) ==
    IF m.auth_handler = None
    THEN [reg |-> reg, value |-> <<>>]
    ELSE IF m.auth_handler \in {"api_key", "hybrid"}
    THEN LET r == create_api_key(reg, n, name, user_id, <<>>, <<>>, <<>>, t)
         IN [reg |-> r.reg, value |-> <<r.value>>]
    ELSE [reg |-> reg, value |-> <<>>]

\* security/__init__.py lines 243-249
manager_list_api_keys(m, reg, user_id) ==
    IF m.auth_handler = None THEN <<>>
    ELSE IF m.auth_handler \in {"api_key", "hybrid"}
    THEN list_api_keys(reg, user_id)
    ELSE <<>>

\* security/__init__.py lines 261-267
manager_revoke_api_key(m, reg, key_id) ==
    IF m.auth_handler = None
    THEN [reg |-> reg, value |-> FALSE]
    ELSE IF m.auth_handler \in {"api_key", "hybrid"}
    THEN revoke_api_key(reg, key_id)
    ELSE [reg |-> reg, value |-> FALSE]

\* update_config, lines 137-139, with _initialize, lines 65-88: a handler
\* is built only when the new configuration is enabled; otherwise, and when
\* building raises, the manager keeps the handler it had.
manager_update_config(m, cfg) ==
    LET h == create_handler(cfg)
    IN IF cfg.enabled /\ h.raised
       THEN [m EXCEPT !.initialized = FALSE]
       ELSE [auth_handler |-> IF cfg.enabled THEN h.handler ELSE m.auth_handler,
             middleware_class |-> TRUE, initialized |-> TRUE]

InitMgr ==
    /\ now = 0
    /\ config \in MgrConfigs
    /\ rate_limits = <<>>
    /\ rl_log = [c \in ClientIds |-> <<>>]
    /\ last_checked = ""
    /\ RegIdle
    /\ mgr = NewSecurityManager(config)
    /\ mw = [enabled |-> FALSE, auth_handler |-> None]
    /\ tokens = {}
    /\ tasks = [t \in Tasks |-> IdleTask]
    /\ running = 0
    /\ serial_rl = <<>>
    /\ received = 0

\* one more call on the manager
MgrCall ==
    /\ reg_ops < MaxMgrOps
    /\ reg_ops' = reg_ops + 1
    /\ UNCHANGED <<now, subsec, issued_at, threads, rlVars, mw, tasks, running,
                   serial_rl, received>>

MgrCallCreateJwtToken ==
    /\ MgrCall
    /\ LET v == manager_create_jwt_token(mgr, config, "u1", "alice", now)
       IN /\ ret' = [op |-> "create_jwt_token", value |-> v]
          /\ tokens' = tokens \cup {v[i] : i \in 1..Len(v)}
    /\ UNCHANGED <<config, mgr, api_keys, key_hashes, next_key, revoked, ever_revoked>>

MgrCallCreateRefreshToken ==
    /\ MgrCall
    /\ LET v == manager_create_refresh_token(mgr, config, "u1", "alice", now)
       IN /\ ret' = [op |-> "create_refresh_token", value |-> v]
          /\ tokens' = tokens \cup {v[i] : i \in 1..Len(v)}
    /\ UNCHANGED <<config, mgr, api_keys, key_hashes, next_key, revoked, ever_revoked>>

MgrCallCreateApiKey ==
    /\ MgrCall
    /\ next_key < MaxKeys
    /\ LET r == manager_create_api_key(mgr, Registry("manager"), next_key + 1,
                                       "svc-a", "u1", now)
       IN /\ SetRegistry("manager", r.reg)
          /\ ret' = [op |-> "create_api_key",
                     value |-> IF r.value = <<>> THEN <<>> ELSE <<r.value[1][1]>>]
          /\ next_key' = IF r.value = <<>> THEN next_key ELSE next_key + 1
    /\ UNCHANGED <<config, mgr, tokens, revoked, ever_revoked>>

MgrCallListApiKeys ==
    /\ MgrCall
    /\ ret' = [op |-> "list_api_keys",
               value |-> manager_list_api_keys(mgr, Registry("manager"), None)]
    /\ UNCHANGED <<config, mgr, tokens, api_keys, key_hashes, next_key, revoked,
                   ever_revoked>>

MgrCallRevokeApiKey ==
    /\ MgrCall
    /\ \E key_id \in KeyIds :
          LET r == manager_revoke_api_key(mgr, Registry("manager"), key_id)
          IN /\ SetRegistry("manager", r.reg)
             /\ ret' = [op |-> "revoke_api_key", key_id |-> key_id, value |-> r.value,
                        was_active |-> /\ key_id \in DOMAIN api_keys["manager"]
                                       /\ api_keys["manager"][key_id].is_active]
             /\ revoked' = IF r.value THEN revoked \cup {key_id} ELSE revoked
             /\ ever_revoked' = IF r.value THEN ever_revoked \cup {key_id}
                                ELSE ever_revoked
    /\ UNCHANGED <<config, mgr, tokens, next_key>>

\* update_config(new_config): a newly built handler starts with an empty
\* registry
MgrUpdateConfig ==
    /\ MgrCall
    /\ \E new_config \in UpdateConfigs :
          LET cfg == new_config @@ config
              m == manager_update_config(mgr, cfg)
              rebuilt == cfg.enabled /\ ~create_handler(cfg).raised
          IN /\ config' = cfg
             /\ mgr' = m
             /\ IF rebuilt
                THEN SetRegistry("manager", EmptyRegistry)
                ELSE UNCHANGED <<api_keys, key_hashes>>
             /\ ret' = [op |-> "update_config", value |-> m.initialized]
    /\ UNCHANGED <<tokens, next_key, revoked, ever_revoked>>

NextMgr ==
    \/ MgrCallCreateJwtToken
    \/ MgrCallCreateRefreshToken
    \/ MgrCallCreateApiKey
    \/ MgrCallListApiKeys
    \/ MgrCallRevokeApiKey
    \/ MgrUpdateConfig

SpecMgr == InitMgr /\ [][NextMgr]_vars

\* the handler classes that offer each manager operation
OffersTokens == {"jwt", "hybrid"}
OffersKeys == {"api_key", "hybrid"}

\* the step is a call of this operation on the manager
MgrCalled(op) == reg_ops' = reg_ops + 1 /\ ret'.op = op

\* nothing was issued and no registry changed
NothingCreated ==
    /\ tokens' = tokens
    /\ api_keys' = api_keys
    /\ key_hashes' = key_hashes
    /\ next_key' = next_key

AllowedAmong(L, n) == Cardinality({i \in 1..n : L[i].ok})

\* the tokens a refill proportional to time credits from the client's first
\* call to its call at time t
ProportionalCredit(L, t) ==
    ((t - L[1].t) * config.rate_limit_requests_per_minute) \div SecondsPerMinute

\* the tokens the bucket was credited since it was created: what it holds,
\* less the initial burst, plus one for every allowed call
Credited(c) ==
    rate_limits[c].burst_tokens - config.rate_limit_burst_size
    + AllowedAmong(rl_log[c], Len(rl_log[c]))

\* at none of the client's calls would the proportional refill have taken the
\* bucket over its capacity: the cap never cut a refill short
BelowCapacity(L) ==
    \A i \in 1..Len(L) : ProportionalCredit(L, L[i].t) <= AllowedAmong(L, i - 1)

\* C31: for a bucket below capacity, the tokens credited over a time span
\* are the span in seconds times requests_per_minute / 60, to within one
\* token, however many checks, allowed or denied, fall inside the span.
C31_RefillProportionalToTime ==
    \A c \in DOMAIN rate_limits :
        LET L == rl_log[c]
            expected == ProportionalCredit(L, L[Len(L)].t)
        IN (Len(L) >= 1 /\ BelowCapacity(L)) =>
              /\ Credited(c) >= expected - 1
              /\ Credited(c) <= expected + 1

\* the step is a check_rate_limit(c) call
RateLimitCalled(c) == Len(rl_log'[c]) = Len(rl_log[c]) + 1

\* C32: check_rate_limit denies exactly when, after refill and pruning, the
\* window holds at least requests_per_minute entries or burst_tokens <= 0;
\* an allowed call appends exactly one timestamp and takes exactly one
\* token; a denied call appends nothing and takes nothing.
C32_DeniesExactlyOnEitherGate ==
    [][\A c \in ClientIds :
          RateLimitCalled(c) =>
             LET old == EnsureBucket(rate_limits, c, now)[c]
                 refilled == Min(Burst, old.burst_tokens
                                      + ((now - old.last_refill) * Rate)
                                            \div SecondsPerMinute)
                 pruned == SelectSeq(old.requests, LAMBDA x : now - x < WindowSeconds)
                 ok == rl_log'[c][Len(rl_log'[c])].ok
                 new == rate_limits'[c]
             IN /\ ok = ~(Len(pruned) >= Rate \/ refilled <= 0)
                /\ ok => /\ new.requests = Append(pruned, now)
                         /\ new.burst_tokens = refilled - 1
                /\ ~ok => /\ new.requests = pruned
                          /\ new.burst_tokens = refilled]_vars

\* C32 witness: a call has just been denied by the window alone (the bucket
\* still holds a token), after allowed calls and a refill.
C32_Witness ==
    /\ last_checked \in DOMAIN rate_limits
    /\ LET b == rate_limits[last_checked]
           L == rl_log[last_checked]
       IN /\ ~L[Len(L)].ok
          /\ b.burst_tokens >= 1
          /\ Len(b.requests) = Rate
          /\ b.last_refill > L[1].t

\* C33: after any sequence (without concurrency) of create, validate,
\* revoke, update and cleanup calls the hash index and the record map are in
\* one-to-one correspondence: each hash entry points to a key id that has a
\* record, and each record is pointed to by exactly one hash entry.
C33_IndexMatchesRecords ==
    LET records == api_keys["manager"]
        index == key_hashes["manager"]
    IN /\ \A x \in DOMAIN index : index[x] \in DOMAIN records
       /\ \A k \in DOMAIN records :
             Cardinality({x \in DOMAIN index : index[x] = k}) = 1

\* C33 witness: two keys were created, one of them was removed by a cleanup
\* and the call after that found the other one by its hash.
C33_Witness ==
    /\ next_key = 2
    /\ Cardinality(DOMAIN api_keys["manager"]) = 1
    /\ Cardinality(DOMAIN key_hashes["manager"]) = 1
    /\ ret.op = "validate_api_key"
    /\ ret.found

(***************************************************************************)
(* Further claims about the hybrid handler (SpecAuth).                     *)
(***************************************************************************)
\* the strategy tried first and the one tried after it
Preferred == IF config.prefer_jwt THEN "jwt" ELSE "api_key"
Fallback == IF config.prefer_jwt THEN "api_key" ELSE "jwt"

\* the strategy, asked alone about the request of the last call, accepts it
StrategySucceeds(kind) ==
    IF kind = "jwt" THEN ret.jwt_error = "" ELSE ret.api_key_error = ""

\* C34: the hybrid handler succeeds exactly when at least one of the two
\* strategies succeeds on the request; when the preferred strategy succeeds
\* the context carries its auth_type and the other strategy is not consulted
\* (a preferred JWT leaves the key registry untouched); when only the other
\* succeeds the context carries the other's auth_type.
C34_HybridSucceedsIffEitherDoes ==
    /\ [](ret.op = "authenticate_request" =>
             /\ ~ret.raised <=> (StrategySucceeds("jwt") \/ StrategySucceeds("api_key"))
             /\ StrategySucceeds(Preferred) => ret.auth_type = Preferred
             /\ (~StrategySucceeds(Preferred) /\ StrategySucceeds(Fallback)) =>
                   ret.auth_type = Fallback)
    /\ [][(ret'.op = "authenticate_request" /\ ret' # ret
             /\ config.prefer_jwt /\ ret'.jwt_error = "") =>
               api_keys' = api_keys]_vars

\* C34 witness: with JWT preferred, a request carrying an expired token and a
\* live API key has just been authenticated by the API-key strategy.
C34_Witness ==
    /\ ret.op = "authenticate_request"
    /\ config.prefer_jwt
    /\ ret.jwt_error = "Token has expired"
    /\ ~ret.raised
    /\ ret.auth_type = "api_key"

(***************************************************************************)
(* Further claims about dispatch (Spec).                                   *)
(***************************************************************************)
\* security is disabled, or the path of the task's request is excluded or
\* not protected
Unsecured(task) ==
    ~mw.enabled \/ Classify(mw, task.req.path) # "protected"

SecuritySteps == {"protected", "rate_limit", "custom_auth_check", "authenticate"}

\* C35: when security is disabled, or the path is excluded or not
\* protected, dispatch forwards the request as is: it calls neither the
\* rate limiter nor the auth strategy, changes no bucket and no API-key
\* record, attaches no security context and adds no security header.
C35_UnsecuredForwardedUntouched ==
    /\ [](\A t \in Tasks :
             (tasks[t].pc \notin {"idle", "dispatch"} /\ Unsecured(tasks[t])) =>
                /\ Has(tasks[t].steps, "call_next")
                /\ \A i \in 1..Len(tasks[t].steps) : tasks[t].steps[i] \notin SecuritySteps
                /\ tasks[t].client_id = ""
                /\ ~tasks[t].state_ctx
                /\ tasks[t].x_security_context = ""
                /\ tasks[t].x_auth_type = "")
    /\ [][\A t \in Tasks :
             (tasks'[t] # tasks[t] /\ Unsecured(tasks'[t])) =>
                /\ rate_limits' = rate_limits
                /\ api_keys' = api_keys
                /\ key_hashes' = key_hashes]_vars

\* C35 witness: with security enabled, a request to a path that is neither
\* excluded nor protected has been answered while another client's bucket
\* exists.
C35_Witness ==
    /\ mw.enabled
    /\ rate_limits # <<>>
    /\ \E t \in Tasks :
          /\ tasks[t].pc = "done"
          /\ Classify(mw, tasks[t].req.path) = "not_protected"
          /\ tasks[t].status = 200


(***************************************************************************)
(* SpecBearer: the JWT handler issuing access and refresh tokens and       *)
(* taking either as a Bearer credential or as the token to refresh.        *)
(***************************************************************************)
\* create_access_token(user_id, username, roles, permissions)
BearerIssueAccess ==
    /\ Cardinality(issued_at) < MaxTokIssued
    /\ \E user_id \in TokUserIds, roles \in TokRoles :
          LET token == create_access_token(config, user_id, "alice", roles, <<>>,
                                           NoClaims, now)
          IN /\ tokens' = tokens \cup {token}
             /\ issued_at' = issued_at \cup
                    {[token |-> token, t |-> now, type |-> "access",
                      user_id |-> user_id, username |-> "alice", roles |-> roles,
                      permissions |-> <<>>]}
    /\ TokFrame
    /\ UNCHANGED ret

\* authenticate_request(request) on a request carrying the token as its
\* Bearer credential
TokAuthenticate ==
    /\ \E token \in tokens \cup {ForgedToken} :
          LET a == jwt_authenticate_request(config, [token |-> token], now)
          IN ret' = [op |-> "authenticate_request", token |-> token, t |-> now,
                     raised |-> a.raised, detail |-> a.detail,
                     ctx |-> IF a.raised THEN UnauthenticatedContext(FALSE) ELSE a.ctx]
    /\ TokFrame
    /\ UNCHANGED <<tokens, issued_at>>

NextBearer ==
    \/ BearerIssueAccess
    \/ TokIssueRefresh
    \/ TokAuthenticate
    \/ TokRefresh
    \/ TickTok

SpecBearer == InitTok /\ [][NextBearer]_vars

\* the token passes verify_token at instant t
Verifies(token, t) ==
    /\ token.key = config.jwt_secret_key
    /\ t < token.exp
    /\ token.iss = Issuer
    /\ token.type \in {"access", "refresh"}

\* the user id and username of the token are both non-empty
NamesUser(token) ==
    /\ token.user_id \notin {None, ""}
    /\ token.username \notin {None, ""}

FailsAuthentication(t) ==
    /\ tasks[t].pc \in {"custom_auth_check", "authenticate"}
    /\ tasks'[t].pc = "done"
    /\ tasks'[t].status = 401

\* C37: a request to a protected path that passes the rate limiter has one
\* burst token taken and its instant added to the window of its client's
\* bucket, and the step that then answers it 401 leaves every bucket as it
\* is: nothing is given back when authentication fails.
C37_FailedAuthenticationStillCounts ==
    [][\A t \in Tasks :
          /\ (tasks[t].pc = "rl_update" /\ tasks'[t].pc # "rl_update") =>
                LET c == tasks[t].client_id
                IN /\ tasks'[t].allowed = "allowed"
                   /\ rate_limits'[c].burst_tokens = rate_limits[c].burst_tokens - 1
                   /\ rate_limits'[c].requests =
                          Append(rate_limits[c].requests, tasks[t].t_now)
          /\ FailsAuthentication(t) =>
                /\ tasks[t].allowed = "allowed"
                /\ config.rate_limit_enabled =>
                      /\ tasks[t].client_id \in DOMAIN rate_limits
                      /\ Has(tasks[t].steps, "rate_limit")
                /\ rate_limits' = rate_limits]_vars

\* a client's first request was let through and answered 401, and its next
\* request, a second later at most, is answered 429 by the bucket the first
\* one emptied
C37_Witness ==
    /\ tasks[1].status = 401
    /\ tasks[1].error = "authentication_required"
    /\ tasks[1].allowed = "allowed"
    /\ tasks[2].status = 429
    /\ tasks[2].client_id = tasks[1].client_id
    /\ tasks[2].t_now = tasks[1].t_now
    /\ received = 2


\* self.rate_limits after the first n calls of log L, made by client c at the
\* instants logged, on a limiter no other client has called
RECURSIVE Alone(_, _, _)
Alone(c, L, n) ==
    IF n = 0 THEN <<>>
    ELSE CheckRateLimit(Alone(c, L, n - 1), c, L[n].t).rl

\* C38: check_rate_limit(c) changes only client c's bucket: every other
\* client's bucket, and whether it has one, is as before the call; and each
\* client's answers and bucket are those it would have got from the same
\* calls with no other client calling.
C38_ClientsAreIndependent ==
    /\ [](\A c \in ClientIds :
            LET L == rl_log[c]
            IN /\ \A n \in 1..Len(L) :
                     L[n].ok = CheckRateLimit(Alone(c, L, n - 1), c, L[n].t).ok
               /\ (c \in DOMAIN rate_limits) = (Len(L) > 0)
               /\ Len(L) > 0 => rate_limits[c] = Alone(c, L, Len(L))[c])
    /\ [][\A c \in ClientIds :
             RateLimitCalled(c) =>
                \A d \in ClientIds \ {c} :
                   /\ (d \in DOMAIN rate_limits') = (d \in DOMAIN rate_limits)
                   /\ d \in DOMAIN rate_limits =>
                         rate_limits'[d] = rate_limits[d]]_vars

\* both clients have called at the same instant, one with its bucket
\* exhausted and denied, the other allowed after it
C38_Witness ==
    /\ last_checked \in ClientIds
    /\ \E d \in ClientIds \ {last_checked} :
          /\ Len(rl_log[d]) >= 2
          /\ ~rl_log[d][Len(rl_log[d])].ok
          /\ rl_log[d][Len(rl_log[d])].t = now
          /\ rate_limits[d].burst_tokens = 0
    /\ rl_log[last_checked][Len(rl_log[last_checked])].ok
    /\ rl_log[last_checked][Len(rl_log[last_checked])].t = now


\* the dispatch of this task has been through create_security_context
Authenticated(task) == Has(task.steps, "authenticate")

\* C39: with the built-in strategies the dispatcher never answers 403: a
\* context returned by a strategy has is_authenticated and is_authorized both
\* true, a strategy failure is answered 401 "authentication_required", and
\* no request is ever answered 403 or "authorization_failed".
C39_Never403 ==
    \A t \in Tasks :
        LET task == tasks[t]
        IN /\ task.status # 403
           /\ task.error # "authorization_failed"
           /\ Authenticated(task) =>
                 IF task.ctx.source = "handler"
                 THEN /\ task.ctx.is_authenticated
                      /\ task.ctx.is_authorized
                      /\ task.ctx.auth_type \in {"jwt", "api_key"}
                      /\ task.status \in {0, 200, 500}
                 ELSE /\ ~task.ctx.is_authenticated
                      /\ task.status = 401
                      /\ task.error = "authentication_required"

\* under a configured strategy one request has been refused by it and
\* answered 401 while another was authenticated and answered 200
C39_Witness ==
    /\ mw.auth_handler # None
    /\ mw.enabled
    /\ \E t, u \in Tasks :
          /\ Authenticated(tasks[t])
          /\ tasks[t].status = 401
          /\ tasks[t].req.token # NoToken
          /\ Authenticated(tasks[u])
          /\ tasks[u].status = 200
          /\ tasks[u].ctx.source = "handler"


\* the last call on the manager was an update_config that left it initialized
Reinitialised == ret.op = "update_config" /\ ret.value

\* C40: after update_config has re-initialised the manager successfully its
\* handler is a new instance with an empty key registry: no key created
\* before the call is in the registry, in its hash index or in the list
\* list_api_keys returns.
C40_UpdateConfigStartsAfresh ==
    Reinitialised =>
        /\ Registry("manager") = EmptyRegistry
        /\ manager_list_api_keys(mgr, Registry("manager"), None) = <<>>

====
